---- MODULE Spec2Model ----
(***************************************************************************)
(* Payment orchestration of the Dayliz API (services/api/app).             *)
(*                                                                         *)
(* The store (Supabase) holds three tables: orders, payment_orders and     *)
(* payment_logs.  Every HTTP handler is a coroutine: between two awaited   *)
(* store calls other requests may run, so a handler is modelled as one     *)
(* action per awaited store call, the local computation after a call       *)
(* (conditions, early returns, the building of the response) belonging to  *)
(* the same action as the call.                                            *)
(*                                                                         *)
(* Amounts are in paise (1 rupee = 100), time is in seconds.               *)
(*                                                                         *)
(* The store answers every call: a call that fails is swallowed by its     *)
(* wrapper in services/supabase.py and is not modelled.                    *)
(***************************************************************************)
EXTENDS Integers, Sequences, FiniteSets, Bags, TLC

(***************************************************************************)
(* Bounds of the model.                                                    *)
(***************************************************************************)
MaxRequests == 2      \* requests issued in one behaviour
MaxInFlight == 2      \* requests running concurrently
MaxOrders == 2        \* rows of the orders table
MaxClock == 1         \* the clock runs from 0 to MaxClock
MaxDirectOrders == 1  \* rows POST /razorpay/create-order stores
MaxCodPayments == 2   \* COD payments POST /cod/process processes

(***************************************************************************)
(* Program constants.                                                      *)
(***************************************************************************)
MaxRetryAttempts == 3            \* payments.py:539
MaxAmountPaise == 20000000       \* payment_service.py:190  (200000 rupees)
CodMaxAmountPaise == 5000000     \* payment_security.py:29  (50000 rupees)
PaymentTimeoutSeconds == 900     \* payment_service.py:213  (15 minutes)
CodRiskThreshold == 70           \* payment_security.py:183
SuspiciousVelocityThreshold == 5 \* payment_security.py:35
MinAmountPaise == 100                  \* payment_security.py:58  (1 rupee)
DailyTransactionLimitPaise == 10000000 \* payment_security.py:30  (100000 rupees)
MaxTransactionsPerHour == 5            \* fraud_detection.py:38
MaxTransactionsPerDay == 20            \* fraud_detection.py:39
MaxAmountPerHourPaise == 5000000       \* fraud_detection.py:40  (50000 rupees)
MaxAmountPerDayPaise == 20000000       \* fraud_detection.py:41  (200000 rupees)
LowRiskThreshold == 30           \* fraud_detection.py:33
MediumRiskThreshold == 60        \* fraud_detection.py:34
HighRiskThreshold == 80          \* fraud_detection.py:35

Users == {"u1", "u2"}

\* schemas/payment.py PaymentStatus: the values the response models accept
PaymentStatus ==
  {"pending", "payment_processing", "completed", "payment_failed",
   "payment_timeout", "refunded"}

\* u1 places orders; u2 only calls operations on orders that are not theirs
Customers == {"u1"}

\* the bodies of POST /create-order-with-payment a client sends: 60000 rupees
\* (above the COD limit) by each method, 250000 rupees (above the online
\* limit), and a cart that holds items
CreateRequests ==
  {[method |-> "upi", amount |-> 6000000, cart |-> "empty"],
   [method |-> "upi", amount |-> 25000000, cart |-> "empty"],
   [method |-> "cod", amount |-> 6000000, cart |-> "empty"],
   [method |-> "card", amount |-> 6000000, cart |-> "empty"],
   [method |-> "upi", amount |-> 6000000, cart |-> "items"]}

\* the amounts of the bodies of POST /razorpay/create-order a client sends:
\* 0.50 rupees, 60000 rupees, and 150000 rupees (above the daily limit); the
\* schema lets through those above 0 and up to 200000 rupees
DirectAmounts == {50, 6000000, 15000000}

PaymentIds == {"pay_A"}

NoGid == <<"none", 0>>
UnknownGid == <<"order_unknown", 0>>
NoTime == -1

\* an address is a record of its four fields, a field that is missing reading
\* as the empty string (address.get(field, '')); {} has every field missing.
\* A field is the sequence of its characters, each its Unicode code point.
NoAddress == [street |-> <<>>, city |-> <<>>, state |-> <<>>, pincode |-> <<>>]

VARIABLES
  orders,          \* the orders table: a sequence of rows, a row's id its index
  payment_orders,  \* the payment_orders table: a sequence of rows
  payment_logs,    \* the payment_logs table: a sequence of rows (the audit log)
  now,             \* the wall clock, in seconds
  mode,            \* PaymentService.razorpay_client: "mock" (None) or "live"
  rzp_seq,         \* ids issued by the live gateway so far
  reqs,            \* the requests issued: a bag of requests, each with its
                   \* arguments, its locals, its position and its response
  retry_success    \* retry_success[o]: retries of order o that returned success

vars ==
  <<orders, payment_orders, payment_logs, now, mode, rzp_seq, reqs,
    retry_success>>

(***************************************************************************)
(* Rows and requests.                                                      *)
(***************************************************************************)
\* a row read from the store is <<row>>, None is <<>>
None == <<>>

\* payment_service.py _create_internal_order: the row inserted into orders.
\* payment_retry_count, razorpay_order_id, payment_id are not in the payload and
\* take the column defaults; the payload carries a shipping_address_id and no
\* delivery_address, which order.get("delivery_address", {}) reads as {}.
OrderPayload(user_id, payment_method, total_amount, timeout_at) ==
  [user_id |-> user_id,
   total_amount |-> total_amount,
   status |-> IF payment_method = "upi" THEN "pending_payment" ELSE "processing",
   payment_method |-> payment_method,
   payment_status |->
     IF payment_method = "upi" THEN "payment_processing" ELSE "pending",
   payment_timeout_at |-> timeout_at,
   payment_retry_count |-> 0,
   razorpay_order_id |-> NoGid,
   payment_id |-> "none",
   delivery_address |-> NoAddress,
   refund_status |-> "none"]

\* payment_service.py _create_razorpay_order: the row inserted into payment_orders
PaymentOrderPayload(user_id, order_id, razorpay_order_id, amount, timeout_at) ==
  [user_id |-> user_id,
   internal_order_id |-> order_id,
   razorpay_order_id |-> razorpay_order_id,
   amount |-> amount,
   status |-> "created",
   payment_id |-> "none",
   timeout_at |-> timeout_at]

\* payment_service.py _log_payment_event: the row inserted into payment_logs
PaymentLog(user_id, order_id, razorpay_order_id, event_type) ==
  [user_id |-> user_id, order_id |-> order_id,
   razorpay_order_id |-> razorpay_order_id, event_type |-> event_type]

\* a request as it arrives
IdleReq ==
  [op |-> "none", pc |-> "idle", user |-> "none", oid |-> 0, gid |-> NoGid,
   pid |-> "none", sig |-> <<>>, method |-> "none", amount |-> 0,
   cart |-> "none", patch |-> <<>>, event |-> "none", snap |-> None,
   newgid |-> NoGid, timeout_at |-> NoTime, code |-> 0, detail |-> "",
   body |-> <<>>, wrote |-> {}]

\* the requests issued, the requests that have returned, those still running
Requests == BagToSet(reqs)

Done == {q \in Requests : q.pc = "done"}

InFlight == [q \in Requests \ Done |-> reqs[q]]

\* a request may arrive
CanStart ==
  /\ BagCardinality(reqs) < MaxRequests
  /\ BagCardinality(InFlight) < MaxInFlight

\* the bag of requests after request q arrived
Issue(q) == reqs (+) SetToBag({q})

\* the bag of requests after request q went on to be q2
Move(q, q2) == (reqs (-) SetToBag({q})) (+) SetToBag({q2})

\* the handler returns: status code and detail (or message) of the response
Respond(q, code, detail) ==
  [q EXCEPT !.pc = "done", !.code = code, !.detail = detail]

(***************************************************************************)
(* The store: services/supabase.py.                                        *)
(***************************************************************************)
\* a get_order that selects by id alone
get_order_any_user(order_id, user_id) ==
  IF order_id \in DOMAIN orders THEN <<orders[order_id]>> ELSE None

\* get_order: .eq("id", order_id).eq("user_id", user_id).single()
get_order(order_id, user_id) ==
  IF order_id \in DOMAIN orders /\ orders[order_id].user_id = user_id
  THEN <<orders[order_id]>>
  ELSE None

\* get_payment_order: .eq("razorpay_order_id", ..).eq("user_id", ..).single();
\* single() raises unless exactly one row matches, and the error is swallowed
get_payment_order(razorpay_order_id, user_id) ==
  LET hits == {i \in DOMAIN payment_orders :
                 /\ payment_orders[i].razorpay_order_id = razorpay_order_id
                 /\ payment_orders[i].user_id = user_id}
  IN IF Cardinality(hits) = 1
     THEN <<payment_orders[CHOOSE i \in hits : TRUE]>>
     ELSE None

\* update_payment_order as verify_razorpay_payment calls it: status and
\* payment_id of every row with that razorpay_order_id
update_payment_order(razorpay_order_id, status, payment_id) ==
  [i \in DOMAIN payment_orders |->
     IF payment_orders[i].razorpay_order_id = razorpay_order_id
     THEN [payment_orders[i] EXCEPT !.status = status, !.payment_id = payment_id]
     ELSE payment_orders[i]]

\* update_order_payment_status: payment_status, and payment_id when one is given
update_order_payment_status(order_id, payment_status, payment_id) ==
  [i \in DOMAIN orders |->
     IF i = order_id
     THEN [orders[i] EXCEPT
             !.payment_status = payment_status,
             !.payment_id = IF payment_id /= "none" THEN payment_id ELSE @]
     ELSE orders[i]]

\* update_order as _create_razorpay_order calls it
update_order_gateway(order_id, razorpay_order_id, timeout_at) ==
  [i \in DOMAIN orders |->
     IF i = order_id
     THEN [orders[i] EXCEPT !.razorpay_order_id = razorpay_order_id,
                            !.payment_timeout_at = timeout_at]
     ELSE orders[i]]

\* update_order as _update_order_status calls it
update_order_status(order_id, status, payment_status) ==
  [i \in DOMAIN orders |->
     IF i = order_id
     THEN [orders[i] EXCEPT !.status = status, !.payment_status = payment_status]
     ELSE orders[i]]

(***************************************************************************)
(* Signatures: utils/payment_security.py.  HMAC-SHA256 under the shared    *)
(* secret is a tagged copy of its message: distinct messages have distinct *)
(* digests, and no other value is a digest.                                *)
(*                                                                         *)
(* A text (an id, a signature) is a value that stands for a run of         *)
(* characters of the class [a-zA-Z0-9_-], or is built from texts:          *)
(* Dirty(text) is text and one character outside [a-zA-Z0-9_\-|] after     *)
(* it, Joined(a, b) is a, the character "|", and b.  NotAString and Falsy  *)
(* are arguments that are not a str.  The characters of a text are the     *)
(* sequence of its runs, "|" for the delimiter and "!" for a character     *)
(* outside the class.                                                      *)
(***************************************************************************)
hmac_sha256(message) == <<"hmac", message>>

ForgedSignature == <<"forged">>

\* a text that holds the characters of text and one character more that is
\* not a letter, a digit, "_", "-" or "|"
Dirty(text) == <<"dirty", text>>

\* the text a|b
Joined(a, b) == <<"joined", a, b>>

\* a truthy argument that is not a str (12345)
NotAString == <<"not a str">>

\* a falsy argument that is not a str (0, False, [], {}, 0.0)
Falsy == <<"falsy">>

\* what a text is: "empty", or the tag of a built text, or "plain" for a run
\* of characters
Kind(text) ==
  IF Len(text) = 0 THEN "empty"
  ELSE IF Len(text) = 1 /\ text[1] \in {"not a str", "falsy"} THEN text[1]
  ELSE IF Len(text) = 2 /\ text[1] = "dirty" THEN "dirty"
  ELSE IF Len(text) = 3 /\ text[1] = "joined" THEN "joined"
  ELSE "plain"

RECURSIVE Characters(_)
\* the characters of a text
Characters(text) ==
  IF Kind(text) = "empty" THEN <<>>
  ELSE IF Kind(text) = "dirty" THEN Characters(text[2]) \o <<"!">>
  ELSE IF Kind(text) = "joined"
  THEN Characters(text[2]) \o <<"|">> \o Characters(text[3])
  ELSE <<text>>

\* the digest of f"{order_id}|{payment_id}"
ExpectedSignature(order_id, payment_id) ==
  hmac_sha256(Characters(order_id) \o <<"|">> \o Characters(payment_id))

RECURSIVE sanitize_input(_)
\* _sanitize_input: "" for an argument that is not a str; else the characters
\* outside [a-zA-Z0-9_\-|] are removed, all of them, and "|" is kept
sanitize_input(input_str) ==
  IF Kind(input_str) \in {"empty", "not a str", "falsy"} THEN <<>>
  ELSE IF Kind(input_str) = "dirty" THEN sanitize_input(input_str[2])
  ELSE IF Kind(input_str) = "joined"
  THEN sanitize_input(input_str[2]) \o <<"|">> \o sanitize_input(input_str[3])
  ELSE <<input_str>>

\* an argument that "not all([...])" takes for missing: a falsy one, which is
\* the empty str or None, none being how it is written, or a falsy value
\* that is not a str
Missing(text, none) ==
  \/ Kind(text) = "falsy"
  \/ Len(text) = Len(none) /\ text = none

verify_razorpay_signature(order_id, payment_id, signature) ==
  IF \/ Missing(order_id, NoGid)
     \/ Missing(payment_id, "none")
     \/ Missing(signature, <<>>)
  THEN FALSE
  ELSE sanitize_input(signature)
         = <<hmac_sha256(sanitize_input(order_id) \o <<"|">>
                         \o sanitize_input(payment_id))>>

(***************************************************************************)
(* Amounts are Python floats: IEEE doubles.  An amount in rupees is        *)
(* written here by its paise, and stands for the double nearest to         *)
(* paise / 100.  A double that arithmetic produces is a record             *)
(* [paise, err] that stands for (paise + err / 2^(52 - lowest)) / 100,     *)
(* lowest being the least binade among the amounts that went into it: err  *)
(* counts hundredths of the spacing of the doubles at that binade.  The    *)
(* figures stay within 32 bits as long as the amounts of one computation   *)
(* span less than 24 binades.                                              *)
(***************************************************************************)
\* the e with 2^e <= paise / 100 < 2^(e + 1), for paise > 0
Binade(paise) ==
  IF paise >= 100
  THEN CHOOSE k \in 0..23 : 100 * 2^k <= paise /\ paise < 200 * 2^k
  ELSE 0 - (CHOOSE k \in 1..7 : paise * 2^k >= 100 /\ paise * 2^(k - 1) < 100)

\* the double nearest to (paise + err / 2^(52 - lowest)) / 100, ties to even.
\* With e the binade of the value, the doubles there are the multiples of
\* 2^(e - 52), which is G spacings of the lowest binade; m is
\* paise * 2^(52 - e) modulo 200, so that m modulo 100 is the hundredths of
\* 2^(e - 52) by which paise / 100 exceeds a multiple of it and m \div 100
\* the parity of that multiple.  R is what the value exceeds a double by, in
\* the unit of err, and parity says whether that double is odd.
RoundDouble(paise, err, lowest) ==
  LET At(e) ==
        LET G == 2^(e - lowest)
            m == ((paise % 200) * ((2^(3 + ((49 - e) % 20))) % 200)) % 200
            Nearest(a, H, over) ==
              LET carry == a >= H - over
                  R == IF carry THEN a - (H - over) ELSE a + over
                  parity ==
                    ((m \div 100) + (err \div H) + (IF carry THEN 1 ELSE 0)) % 2
                  down == R < 50 * G \/ (R = 50 * G /\ parity = 0)
              IN [paise |-> paise,
                  err |-> IF down THEN err - R ELSE err + (H - R)]
        IN Nearest((m % 100) * G, 100 * G, err % (100 * G))
      b == Binade(paise)
      power == IF b >= 0 THEN paise = 100 * 2^b ELSE paise * 2^(0 - b) = 100
  IN IF paise = 0 THEN [paise |-> 0, err |-> 0]
     ELSE At(IF power /\ err < 0 THEN b - 1 ELSE b)

\* sum(amounts): the amounts are added from the left, starting from 0, and
\* every partial sum is rounded to a double (sum() of CPython up to 3.11)
SumOfDoubles(amounts) ==
  LET present == {amounts[i] : i \in DOMAIN amounts} \ {0}
      lowest == IF present = {} THEN 0
                ELSE Binade(CHOOSE x \in present : \A y \in present : x <= y)
      RECURSIVE Partial(_)
      Partial(n) ==
        IF n = 0 THEN [paise |-> 0, err |-> 0]
        ELSE LET before == Partial(n - 1)
                 term == RoundDouble(amounts[n], 0, lowest)
             IN RoundDouble(before.paise + term.paise, before.err + term.err,
                            lowest)
  IN Partial(Len(amounts))

\* sum(amounts) > limit, a whole number of rupees, which is a double
SumExceeds(amounts, limit) ==
  LET total == SumOfDoubles(amounts)
  IN total.paise > limit \/ (total.paise = limit /\ total.err > 0)

(***************************************************************************)
(* utils/payment_security.py create_razorpay_order: the checks of the      *)
(* gateway-order creation, in their order.  A ValueError is an answer      *)
(* with accepted FALSE and the message of the error, without its rupee     *)
(* sign.  "" is no user.                                                   *)
(***************************************************************************)
NoUser == ""

get_user_daily_transaction_total(user_id) == 0

\* int(amount * 100), amount being the double nearest to paise / 100: the
\* product is rounded to a double and then truncated, which loses one paisa
\* when the product falls below paise.  With 2^e <= amount < 2^(e+1) and
\* 2^(n-1) <= paise < 2^n, amount is a multiple of 2^(e-52); m is
\* paise * 2^(52-e) modulo 200, so that m modulo 100 is the hundredths of
\* 2^(e-52) by which paise / 100 exceeds a multiple of it, and m \div 100 the
\* parity of that multiple.  amount is below paise / 100 when the hundredths
\* are under 50, or are 50 and the multiple is even; the product then falls
\* below paise when the spacing of the doubles at paise is 64 of those at
\* amount and the hundredths are over 32.
ToPaisa(paise) ==
  IF paise = 0 THEN 0
  ELSE
    LET e == Binade(paise)
        n == CHOOSE k \in 1..25 : 2^(k - 1) <= paise /\ paise < 2^k
        m == ((paise % 200) * ((2^(3 + ((49 - e) % 20))) % 200)) % 200
        hundredths == m % 100
        down == hundredths < 50 \/ (hundredths = 50 /\ m \div 100 = 0)
    IN IF n - 1 - e = 6 /\ down /\ hundredths > 32 THEN paise - 1 ELSE paise

\* daily_total: what _get_user_daily_transaction_total returns for the user
create_razorpay_order(amount, currency, user_id, daily_total) ==
  LET Rejected(message) ==
        [accepted |-> FALSE, error |-> message, amount |-> 0, status |-> ""]
  IN IF currency /= "INR"
     THEN Rejected("Only INR currency is supported in India")
     ELSE IF amount < MinAmountPaise
     THEN Rejected("Minimum transaction amount is 1.00")
     ELSE IF amount > MaxAmountPaise
     THEN Rejected("Amount exceeds maximum transaction limit")
     ELSE IF /\ user_id /= NoUser
             /\ SumExceeds(<<daily_total, amount>>, DailyTransactionLimitPaise)
     THEN Rejected("Daily transaction limit exceeded")
     ELSE [accepted |-> TRUE, error |-> "", amount |-> ToPaisa(amount),
           status |-> "created"]

(***************************************************************************)
(* COD eligibility: utils/payment_security.py validate_cod_order.  The     *)
(* risk score is what _calculate_user_risk_score returned and              *)
(* recent_orders the length of what _get_recent_orders returned.  The      *)
(* reason of the amount check is                                           *)
(* "COD amount exceeds (rupee sign)50,000 limit as per RBI guidelines".    *)
(***************************************************************************)
Min(a, b) == IF a < b THEN a ELSE b

\* the characters that \d matches in a str pattern: the decimal digits of
\* Unicode, by code point
Digits ==
  (48..57) \cup (1632..1641) \cup (1776..1785) \cup (1984..1993) \cup
  (2406..2415) \cup (2534..2543) \cup (2662..2671) \cup (2790..2799) \cup
  (2918..2927) \cup (3046..3055) \cup (3174..3183) \cup (3302..3311) \cup
  (3430..3439) \cup (3558..3567) \cup (3664..3673) \cup (3792..3801) \cup
  (3872..3881) \cup (4160..4169) \cup (4240..4249) \cup (6112..6121) \cup
  (6160..6169) \cup (6470..6479) \cup (6608..6617) \cup (6784..6793) \cup
  (6800..6809) \cup (6992..7001) \cup (7088..7097) \cup (7232..7241) \cup
  (7248..7257) \cup (42528..42537) \cup (43216..43225) \cup
  (43264..43273) \cup (43472..43481) \cup (43504..43513) \cup
  (43600..43609) \cup (44016..44025) \cup (65296..65305) \cup
  (66720..66729) \cup (68912..68921) \cup (69734..69743) \cup
  (69872..69881) \cup (69942..69951) \cup (70096..70105) \cup
  (70384..70393) \cup (70736..70745) \cup (70864..70873) \cup
  (71248..71257) \cup (71360..71369) \cup (71472..71481) \cup
  (71904..71913) \cup (72016..72025) \cup (72784..72793) \cup
  (73040..73049) \cup (73120..73129) \cup (92768..92777) \cup
  (92864..92873) \cup (93008..93017) \cup (120782..120831) \cup
  (123200..123209) \cup (123632..123641) \cup (125264..125273) \cup
  (130032..130041)

\* the characters that str.strip() removes, by code point
WhiteSpace ==
  {9, 10, 11, 12, 13, 28, 29, 30, 31, 32, 133, 160, 5760, 8192, 8193,
   8194, 8195, 8196, 8197, 8198, 8199, 8200, 8201, 8202, 8232, 8233, 8239, 8287, 12288}

\* a field that is not a str (None, a number): its .strip() raises
NotText == <<-1>>

\* str.strip(): the text without the white space at its ends
Strip(text) ==
  LET kept == {i \in DOMAIN text : text[i] \notin WhiteSpace} IN
  IF kept = {} THEN <<>>
  ELSE SubSeq(text, CHOOSE i \in kept : \A j \in kept : i <= j,
                    CHOOSE i \in kept : \A j \in kept : j <= i)

\* re.match(r'^\d{6}$', pincode): six digits, or six digits and one newline
\* after them ($ matches before a newline that ends the string)
MatchesSixDigits(pincode) ==
  /\ Len(pincode) \in {6, 7}
  /\ \A i \in 1..6 : pincode[i] \in Digits
  /\ Len(pincode) = 7 => pincode[7] = 10

\* pincode.strip() is not empty
PincodeGiven(pincode) == Strip(pincode) /= <<>>

\* the required fields of an address, in the order of the loop
RequiredFields(address) ==
  <<address.street, address.city, address.state, address.pincode>>

\* _validate_indian_address raises: the loop comes to a field that is not a
\* str before it comes to a field that is empty
validate_indian_address_raises(address) ==
  \E i \in 1..4 :
    /\ RequiredFields(address)[i] = NotText
    /\ \A j \in 1..(i - 1) : Strip(RequiredFields(address)[j]) /= <<>>

\* _validate_indian_address, when it returns
validate_indian_address(address) ==
  /\ \A i \in 1..3 :
       /\ RequiredFields(address)[i] /= NotText
       /\ Strip(RequiredFields(address)[i]) /= <<>>
  /\ address.pincode /= NotText
  /\ PincodeGiven(address.pincode)
  /\ MatchesSixDigits(address.pincode)

\* _is_serviceable_pincode
is_serviceable_pincode(pincode) == MatchesSixDigits(pincode)

\* total_amount is None or <<the amount>>; a delivery_address that is None
\* is NullAddress.  The except branch answers when float() or the address
\* validation raised.
validate_cod_order(total_amount, delivery_address, risk_score, recent_orders) ==
  IF total_amount = None
  THEN [eligible |-> FALSE,
        reason |-> "Unable to validate COD eligibility. Please try again.",
        risk_score |-> 100]
  ELSE IF total_amount[1] > CodMaxAmountPaise
  THEN [eligible |-> FALSE,
        reason |-> "COD amount exceeds 50,000 limit as per RBI guidelines",
        risk_score |-> 0]
  ELSE IF validate_indian_address_raises(delivery_address)
  THEN [eligible |-> FALSE,
        reason |-> "Unable to validate COD eligibility. Please try again.",
        risk_score |-> 100]
  ELSE IF ~validate_indian_address(delivery_address)
  THEN [eligible |-> FALSE,
        reason |-> "Invalid or incomplete delivery address",
        risk_score |-> 0]
  ELSE IF risk_score > CodRiskThreshold
  THEN [eligible |-> FALSE,
        reason |-> "COD not available due to account verification requirements",
        risk_score |-> risk_score]
  ELSE IF recent_orders >= SuspiciousVelocityThreshold
  THEN [eligible |-> FALSE,
        reason |-> "Too many orders placed recently. Please try again later.",
        risk_score |-> risk_score]
  ELSE IF ~is_serviceable_pincode(delivery_address.pincode)
  THEN [eligible |-> FALSE, reason |-> "COD not available in your area",
        risk_score |-> risk_score]
  ELSE [eligible |-> TRUE, reason |-> "", risk_score |-> risk_score]

\* _calculate_user_risk_score: min(risk_score, 100) of the placeholder's
\* risk_score = 0, and 50 when the computation raised
calculate_user_risk_score(failed) == IF failed THEN 50 ELSE Min(0, 100)

GoodPincode == <<52, 48, 48, 48, 48, 49>>

\* 123 Test Street, Mumbai, Maharashtra, 400001
TestAddress ==
  [street |-> <<49, 50, 51, 32, 84, 101, 115, 116, 32, 83, 116, 114, 101, 101, 116>>,
   city |-> <<77, 117, 109, 98, 97, 105>>,
   state |-> <<77, 97, 104, 97, 114, 97, 115, 104, 116, 114, 97>>,
   pincode |-> GoodPincode]

(***************************************************************************)
(* Responses.  PaymentResponse.status is a PaymentStatus: building the     *)
(* response with another value raises a validation error inside the        *)
(* handler's try block, which the handler's "except Exception" turns into  *)
(* a 500 with the handler's failure detail.                                *)
(***************************************************************************)
PaymentResponse(q, status, message, failure_detail) ==
  IF status \in PaymentStatus
  THEN Respond(q, 200, message)
  ELSE Respond(q, 500, failure_detail)

(***************************************************************************)
(* The gateway order id: payment_service.py _create_razorpay_order.        *)
(* Live: the id the gateway returns.  Mock: "order_mock_" and the clock's  *)
(* second.                                                                 *)
(***************************************************************************)
NewGatewayOrderId ==
  IF mode = "live" THEN <<"order_rzp", rzp_seq + 1>> ELSE <<"order_mock", now>>

\* _create_razorpay_order up to its first store call, entered by request q:
\* the amount check, the gateway order id, the timeout
EnterCreateRazorpayOrder(q, amount, failure_detail) ==
  IF amount <= 0 \/ amount > MaxAmountPaise
  THEN Respond(q, 500, failure_detail)
  ELSE [q EXCEPT !.pc = "gw_insert",
                 !.newgid = NewGatewayOrderId,
                 !.timeout_at = now + PaymentTimeoutSeconds]

\* the live gateway issues an id when _create_razorpay_order gets that far
GatewaySeqAfter(amount) ==
  IF mode = "live" /\ ~(amount <= 0 \/ amount > MaxAmountPaise)
  THEN rzp_seq + 1
  ELSE rzp_seq

(***************************************************************************)
(* Initial states.  The store outlives the process: it starts empty, or    *)
(* holding one UPI order of user u1 as these operations leave it:          *)
(*   - after create_order_with_payment (retries = 0, payment_processing);  *)
(*   - after `retries` rounds of update_order to payment_failed and        *)
(*     retry_payment, and a last update_order to payment_failed;           *)
(*   - after a create_order_with_payment of 250000 rupees, which inserts   *)
(*     the order and fails in _create_razorpay_order, and an update_order  *)
(*     to payment_failed ("oversize": no gateway order was issued).        *)
(* The seeded history ran before second 0, one gateway order per second,  *)
(* and its last payment window has timed out.  No operation of the API     *)
(* stores a delivery_address; the store is also written by the clients of  *)
(* the database, and holds in two seeds a row with a complete address: the *)
(* UPI order after create_order_with_payment, and a COD order of u1 as     *)
(* create_order_with_payment leaves it ("cod").                            *)
(***************************************************************************)
SeedAmount == 3000000

OversizeAmount == 25000000

Seeds ==
  {[kind |-> "empty", retries |-> 0, payment_status |-> "none",
    delivery_address |-> NoAddress],
   [kind |-> "order", retries |-> 0, payment_status |-> "payment_processing",
    delivery_address |-> NoAddress],
   [kind |-> "order", retries |-> 0, payment_status |-> "payment_processing",
    delivery_address |-> TestAddress],
   [kind |-> "cod", retries |-> 0, payment_status |-> "pending",
    delivery_address |-> TestAddress],
   [kind |-> "oversize", retries |-> 0, payment_status |-> "payment_failed",
    delivery_address |-> NoAddress]}
  \cup {[kind |-> "order", retries |-> k, payment_status |-> "payment_failed",
          delivery_address |-> NoAddress] :
          k \in {MaxRetryAttempts - 1, MaxRetryAttempts}}

\* the second of the seeded history at which attempt j of k + 1 was made: the
\* history ended more than a payment timeout before second 0
SeedTime(sd, j) == j - sd.retries - 3 - PaymentTimeoutSeconds

SeedGid(m, sd, j) ==
  IF m = "live" THEN <<"order_rzp", j>> ELSE <<"order_mock", SeedTime(sd, j)>>

SeedOrders(m, sd) ==
  IF sd.kind = "empty" THEN <<>>
  ELSE IF sd.kind = "oversize"
  THEN <<[OrderPayload("u1", "upi", OversizeAmount,
                         SeedTime(sd, 1) + PaymentTimeoutSeconds) EXCEPT
            !.payment_status = sd.payment_status]>>
  ELSE IF sd.kind = "cod"
  THEN <<[OrderPayload("u1", "cod", SeedAmount, NoTime) EXCEPT
            !.delivery_address = sd.delivery_address]>>
  ELSE <<[OrderPayload("u1", "upi", SeedAmount, PaymentTimeoutSeconds) EXCEPT
            !.payment_status = sd.payment_status,
            !.delivery_address = sd.delivery_address,
            !.payment_retry_count = sd.retries,
            !.razorpay_order_id = SeedGid(m, sd, sd.retries + 1),
            !.payment_timeout_at =
               SeedTime(sd, sd.retries + 1) + PaymentTimeoutSeconds]>>

SeedPaymentOrders(m, sd) ==
  IF sd.kind /= "order" THEN <<>>
  ELSE [j \in 1..(sd.retries + 1) |->
          PaymentOrderPayload("u1", 1, SeedGid(m, sd, j), SeedAmount,
                              SeedTime(sd, j) + PaymentTimeoutSeconds)]

SeedLogs(m, sd) ==
  IF sd.kind = "empty" THEN <<>>
  ELSE <<PaymentLog("u1", 1, NoGid, "order_created")>>
       \o [j \in 1..(IF sd.kind = "order" THEN sd.retries + 1 ELSE 0) |->
             PaymentLog("u1", 1, SeedGid(m, sd, j), "payment_initiated")]

Init ==
  \E m \in {"mock", "live"}, sd \in Seeds :
    /\ mode = m
    /\ orders = SeedOrders(m, sd)
    /\ payment_orders = SeedPaymentOrders(m, sd)
    /\ payment_logs = SeedLogs(m, sd)
    /\ rzp_seq = IF m = "live" /\ sd.kind = "order" THEN sd.retries + 1 ELSE 0
    /\ retry_success = [o \in 1..MaxOrders |-> IF o = 1 THEN sd.retries ELSE 0]
    /\ now = 0
    /\ reqs = EmptyBag

\* the gateway order ids a client may name: those the orders refer to (NoGid for
\* an order without one, a missing argument), those of the gateway orders
\* stored, an earlier attempt's included, and one never issued
KnownGids ==
  {orders[o].razorpay_order_id : o \in DOMAIN orders}
  \cup {payment_orders[i].razorpay_order_id : i \in DOMAIN payment_orders}
  \cup {UnknownGid}

\* the order ids a client may name: those stored, and one never stored
KnownOids == (DOMAIN orders) \cup {Len(orders) + 1}

(***************************************************************************)
(* The clock.                                                              *)
(***************************************************************************)
Tick ==
  /\ now < MaxClock
  /\ now' = now + 1
  /\ UNCHANGED <<orders, payment_orders, payment_logs, mode, rzp_seq, reqs,
                 retry_success>>

(***************************************************************************)
(* POST /razorpay/verify: api/v1/payments.py verify_razorpay_payment.      *)
(***************************************************************************)
VerifyFailure == "Payment verification failed. Please contact support."

\* the signature check, get_payment_order, the 404 and the duplicate check
VerifyStart(user, gid, pid, sig) ==
  /\ CanStart
  /\ LET q == [IdleReq EXCEPT !.op = "verify", !.user = user, !.gid = gid,
                              !.pid = pid, !.sig = sig]
         order == get_payment_order(gid, user)
     IN reqs' = Issue(
          IF ~verify_razorpay_signature(gid, pid, sig)
          THEN Respond(q, 400, "Payment verification failed. Invalid signature.")
          ELSE IF order = None
          THEN Respond(q, 404, "Order not found or unauthorized access.")
          ELSE IF order[1].status = "paid"
          THEN PaymentResponse([q EXCEPT !.snap = order], "paid",
                               "Payment already processed", VerifyFailure)
          ELSE [q EXCEPT !.snap = order, !.pc = "verify_update_payment_order"])
  /\ UNCHANGED <<orders, payment_orders, payment_logs, now, mode, rzp_seq,
                 retry_success>>

\* update_payment_order(razorpay_order_id, {status: paid, payment_id, ..})
VerifyUpdatePaymentOrder(q) ==
  /\ q.pc = "verify_update_payment_order"
  /\ payment_orders' = update_payment_order(q.gid, "paid", q.pid)
  /\ reqs' = Move(q, [q EXCEPT !.pc = "verify_update_order",
                               !.wrote = @ \cup {"payment_order_paid"}])
  /\ UNCHANGED <<orders, payment_logs, now, mode, rzp_seq, retry_success>>

\* update_order_payment_status(internal_order_id, "paid", payment_id), then the
\* response PaymentResponse(status="paid")
VerifyUpdateOrder(q) ==
  /\ q.pc = "verify_update_order"
  /\ orders' = update_order_payment_status(q.snap[1].internal_order_id,
                                           "paid", q.pid)
  /\ reqs' = Move(q,
       PaymentResponse([q EXCEPT !.wrote = @ \cup {"order_payment_status"}],
                       "paid", "Payment verified successfully", VerifyFailure))
  /\ UNCHANGED <<payment_orders, payment_logs, now, mode, rzp_seq,
                 retry_success>>

(***************************************************************************)
(* POST /create-order-with-payment: payment_service.py                     *)
(* create_order_with_payment.  Every exception, the HTTPException of an    *)
(* unsupported method included, leaves through "except Exception" as a 500.*)
(***************************************************************************)
CreateFailure == "Order creation failed. Please try again."

\* _create_internal_order up to its store call: the timeout, which for UPI
\* is 15 minutes from the clock as it is read now, and the payload
CreateInternalOrder(user, method, amount, cart) ==
  /\ CanStart
  /\ Len(orders)
       + BagCardinality([q \in {r \in Requests : r.pc = "create_order_insert"}
                          |-> reqs[q]])
       < MaxOrders
  /\ reqs' = Issue([IdleReq EXCEPT
                      !.op = "create", !.user = user, !.method = method,
                      !.amount = amount, !.cart = cart,
                      !.timeout_at = IF method = "upi"
                                     THEN now + PaymentTimeoutSeconds
                                     ELSE NoTime,
                      !.pc = "create_order_insert"])
  /\ UNCHANGED <<orders, payment_orders, payment_logs, now, mode, rzp_seq,
                 retry_success>>

\* create_order: the insert of the payload into orders, which returns the id
\* of the row
CreateOrderInsert(q) ==
  /\ q.pc = "create_order_insert"
  /\ orders' = Append(orders,
                      OrderPayload(q.user, q.method, q.amount, q.timeout_at))
  /\ reqs' = Move(q, [q EXCEPT !.oid = Len(orders) + 1,
                               !.wrote = {"order_insert"},
                               !.pc = "create_order_items"])
  /\ UNCHANGED <<payment_orders, payment_logs, now, mode, rzp_seq,
                 retry_success>>

\* create_order: the insert into order_items, of no items (order_items is
\* None); the table is not among the three that are modelled
CreateOrderItems(q) ==
  /\ q.pc = "create_order_items"
  /\ reqs' = Move(q, [q EXCEPT !.pc = "create_order_select"])
  /\ UNCHANGED <<orders, payment_orders, payment_logs, now, mode, rzp_seq,
                 retry_success>>

\* create_order: the select of the order by its id, single(); without the row
\* create_order returns None and order["id"] raises.  Then, back in
\* _create_internal_order, one supabase_client.create_order_item call per
\* cart item; SupabaseClient has no create_order_item, so the first item
\* raises AttributeError
CreateOrderSelect(q) ==
  /\ q.pc = "create_order_select"
  /\ reqs' = Move(q,
       IF q.oid \notin DOMAIN orders \/ q.cart = "items"
       THEN Respond(q, 500, CreateFailure)
       ELSE [q EXCEPT !.pc = "create_log"])
  /\ UNCHANGED <<orders, payment_orders, payment_logs, now, mode, rzp_seq,
                 retry_success>>

\* _log_payment_event(order_created), then the branch on the payment method up
\* to its first store call
CreateLogOrderCreated(q) ==
  /\ q.pc = "create_log"
  /\ payment_logs' =
       Append(payment_logs, PaymentLog(q.user, q.oid, NoGid, "order_created"))
  /\ LET q2 == [q EXCEPT !.wrote = @ \cup {"log_order_created"}]
     IN reqs' = Move(q,
          IF q.method = "upi"
          THEN EnterCreateRazorpayOrder(q2, q.amount, CreateFailure)
          ELSE IF q.method = "cod"
          THEN [q2 EXCEPT !.pc = "create_cod_confirm"]
          ELSE Respond(q2, 500, CreateFailure))
  /\ rzp_seq' = IF q.method = "upi" THEN GatewaySeqAfter(q.amount) ELSE rzp_seq
  /\ UNCHANGED <<orders, payment_orders, now, mode, retry_success>>

\* COD: _update_order_status(order_id, "processing", PaymentStatus.PENDING) and
\* the success result, payment_required False
CreateCodConfirm(q) ==
  /\ q.pc = "create_cod_confirm"
  /\ orders' = update_order_status(q.oid, "processing", "pending")
  /\ reqs' = Move(q,
       Respond([q EXCEPT !.wrote = @ \cup {"order_status"}], 200,
               "Order confirmed. Payment on delivery."))
  /\ UNCHANGED <<payment_orders, payment_logs, now, mode, rzp_seq,
                 retry_success>>

(***************************************************************************)
(* payment_service.py _create_razorpay_order, called by                    *)
(* create_order_with_payment and by retry_payment: its three store calls.  *)
(***************************************************************************)
\* create_payment_order({.. status: created, timeout_at ..}).  The handler of
\* POST /razorpay/create-order stores its row by the same call, without
\* internal_order_id and timeout_at (0 and NoTime), and then fails to build
\* its response
GatewayOrderInsert(q) ==
  /\ q.pc = "gw_insert"
  /\ payment_orders' =
       Append(payment_orders,
              PaymentOrderPayload(q.user, q.oid, q.newgid, q.amount,
                                  q.timeout_at))
  /\ LET q2 == [q EXCEPT !.wrote = @ \cup {"payment_order_insert"}]
     IN reqs' = Move(q,
          IF q.op = "gateway_order"
          THEN Respond(q2, 500,
                       "Payment order creation failed. Please try again.")
          ELSE [q2 EXCEPT !.pc = "gw_update_order"])
  /\ UNCHANGED <<orders, payment_logs, now, mode, rzp_seq, retry_success>>

\* update_order(order_id, {razorpay_order_id, payment_timeout_at})
GatewayOrderUpdateOrder(q) ==
  /\ q.pc = "gw_update_order"
  /\ orders' = update_order_gateway(q.oid, q.newgid, q.timeout_at)
  /\ reqs' = Move(q, [q EXCEPT !.pc = "gw_log",
                               !.wrote = @ \cup {"order_gateway"}])
  /\ UNCHANGED <<payment_orders, payment_logs, now, mode, rzp_seq,
                 retry_success>>

\* _log_payment_event(payment_initiated), and the return to the caller:
\* create_order_with_payment returns payment_required True, retry_payment goes
\* on to its update of the retry count
GatewayOrderLog(q) ==
  /\ q.pc = "gw_log"
  /\ payment_logs' =
       Append(payment_logs,
              PaymentLog(q.user, q.oid, q.newgid, "payment_initiated"))
  /\ LET q2 == [q EXCEPT !.wrote = @ \cup {"log_payment_initiated"}]
     IN reqs' = Move(q,
          IF q.op = "create"
          THEN Respond(q2, 200, "payment_required")
          ELSE [q2 EXCEPT !.pc = "retry_update_order"])
  /\ UNCHANGED <<orders, payment_orders, now, mode, rzp_seq, retry_success>>

(***************************************************************************)
(* POST /razorpay/create-order: api/v1/payments.py create_razorpay_order.  *)
(* The handler checks the amount, has payment_security.create_razorpay_order *)
(* make an order id from the clock's second and the user, stores a row in   *)
(* payment_orders (GatewayOrderInsert, a step of its own), and builds a    *)
(* RazorpayOrderResponse without its required internal_order_id and        *)
(* timeout_at, which raises a validation error.                            *)
(* Every exception, the HTTPException of the amount checks included,       *)
(* leaves through "except Exception" as a 500; so does every request.      *)
(* The row has no internal_order_id and no timeout_at, written here 0 and  *)
(* NoTime.                                                                 *)
(***************************************************************************)
CreateRazorpayOrder(user, amount) ==
  LET order == create_razorpay_order(amount, "INR", user,
                                     get_user_daily_transaction_total(user))
      q == [IdleReq EXCEPT !.op = "gateway_order", !.user = user,
                           !.amount = amount]
      direct == {i \in DOMAIN payment_orders :
                   payment_orders[i].internal_order_id = 0}
      storing == {r \in Requests : r.op = "gateway_order" /\ r.pc = "gw_insert"}
  IN
  /\ CanStart
  /\ IF amount < MinAmountPaise \/ amount > MaxAmountPaise \/ ~order.accepted
     THEN reqs' = Issue(Respond(q, 500,
            "Payment order creation failed. Please try again."))
     ELSE /\ Cardinality(direct) + BagCardinality([r \in storing |-> reqs[r]])
               < MaxDirectOrders
          /\ reqs' = Issue([q EXCEPT !.newgid = <<"order", now, user>>,
                                     !.pc = "gw_insert"])
  /\ UNCHANGED <<orders, payment_orders, payment_logs, now, mode, rzp_seq,
                 retry_success>>

(***************************************************************************)
(* POST /retry/{order_id}: api/v1/payments.py retry_payment.               *)
(***************************************************************************)
RetryFailure == "Payment retry failed. Please try again."

\* a retry_payment that lets the order at the limit through
RetryExhaustedAboveLimit(retry_count) == retry_count > MaxRetryAttempts

\* retry_count >= 3
RetryExhausted(retry_count) == retry_count >= MaxRetryAttempts

\* payment_status not in [payment_failed, payment_timeout]
RetryNotAllowed(payment_status) ==
  payment_status \notin {"payment_failed", "payment_timeout"}

\* update_order(order_id, {payment_retry_count, payment_status: payment_processing})
update_order_retry(order_id, retry_count) ==
  [i \in DOMAIN orders |->
     IF i = order_id
     THEN [orders[i] EXCEPT !.payment_retry_count = retry_count,
                            !.payment_status = "payment_processing"]
     ELSE orders[i]]

\* get_order, the eligibility checks, and _create_razorpay_order up to its first
\* store call
RetryStart(user, oid) ==
  /\ CanStart
  /\ LET order == get_order(oid, user)
         q == [IdleReq EXCEPT !.op = "retry", !.user = user, !.oid = oid,
                              !.snap = order]
     IN /\ reqs' = Issue(
             IF order = None
             THEN Respond(q, 404, "Order not found or unauthorized access.")
             ELSE IF RetryNotAllowed(order[1].payment_status)
             THEN Respond(q, 400,
                          "Payment retry not allowed for current order status.")
             ELSE IF RetryExhausted(order[1].payment_retry_count)
             THEN Respond(q, 400, "Maximum retry attempts exceeded.")
             ELSE EnterCreateRazorpayOrder(
                    [q EXCEPT !.amount = order[1].total_amount],
                    order[1].total_amount, RetryFailure))
        /\ rzp_seq' =
             IF /\ order /= None
                /\ ~RetryNotAllowed(order[1].payment_status)
                /\ ~RetryExhausted(order[1].payment_retry_count)
             THEN GatewaySeqAfter(order[1].total_amount)
             ELSE rzp_seq
  /\ UNCHANGED <<orders, payment_orders, payment_logs, now, mode,
                 retry_success>>

\* update_order(order_id, {payment_retry_count: retry_count + 1, ..}) with the
\* retry_count read by get_order, and the success result
RetryUpdateOrder(q) ==
  /\ q.pc = "retry_update_order"
  /\ orders' = update_order_retry(q.oid, q.snap[1].payment_retry_count + 1)
  /\ reqs' = Move(q,
       Respond([q EXCEPT !.wrote = @ \cup {"order_retry"}], 200,
               "Payment retry initiated"))
  /\ retry_success' = [retry_success EXCEPT ![q.oid] = @ + 1]
  /\ UNCHANGED <<payment_orders, payment_logs, now, mode, rzp_seq>>

(***************************************************************************)
(* GET /status/{order_id}: api/v1/payments.py get_payment_status.          *)
(***************************************************************************)
StatusFailure == "Failed to get payment status"

\* the response model PaymentStatusResponse built from the order row read;
\* payment_status is a PaymentStatus, so a row holding another value fails
\* validation and leaves through "except Exception"
PaymentStatusResponse(q, order) ==
  IF order.payment_status \in PaymentStatus
  THEN [Respond(q, 200, "ok") EXCEPT
          !.body = [payment_status |-> order.payment_status,
                    razorpay_order_id |-> order.razorpay_order_id,
                    timeout_at |-> order.payment_timeout_at,
                    retry_count |-> order.payment_retry_count,
                    can_retry |->
                      /\ order.payment_status
                           \in {"payment_failed", "payment_timeout"}
                      /\ order.payment_retry_count < MaxRetryAttempts]]
  ELSE Respond(q, 500, StatusFailure)

\* get_order, the 404, and for an order that has a razorpay_order_id the call
\* supabase_client.get_payment_order(order["razorpay_order_id"]): the method
\* takes (razorpay_order_id, user_id), so the call raises TypeError before it
\* reaches the store; the handler reads the clock nowhere
GetPaymentStatus(user, oid) ==
  /\ CanStart
  /\ LET order == get_order(oid, user)
         q == [IdleReq EXCEPT !.op = "status", !.user = user, !.oid = oid,
                              !.snap = order]
     IN reqs' = Issue(
          IF order = None
          THEN Respond(q, 404, "Order not found or unauthorized access.")
          ELSE IF order[1].razorpay_order_id /= NoGid
          THEN Respond(q, 500, StatusFailure)
          ELSE PaymentStatusResponse(q, order[1]))
  /\ UNCHANGED <<orders, payment_orders, payment_logs, now, mode, rzp_seq,
                 retry_success>>

(***************************************************************************)
(* PATCH /orders/{order_id}: api/v1/orders.py update_order.  OrderUpdate   *)
(* carries status, payment_status and driver_id, each optional and any     *)
(* string; the fields set are written as they are.                         *)
(***************************************************************************)
Unset == "unset"

\* the bodies a client sends
OrderUpdates ==
  {[status |-> Unset, payment_status |-> "payment_failed"],
   [status |-> "delivered", payment_status |-> Unset]}

\* update_order(order_id, order_update.dict(exclude_unset=True))
update_order_fields(order_id, upd) ==
  [i \in DOMAIN orders |->
     IF i = order_id
     THEN [orders[i] EXCEPT
             !.status = IF upd.status /= Unset THEN upd.status ELSE @,
             !.payment_status =
                IF upd.payment_status /= Unset THEN upd.payment_status ELSE @]
     ELSE orders[i]]

\* get_order and the status check
OrderUpdateStart(user, oid, upd) ==
  /\ CanStart
  /\ LET order == get_order(oid, user)
         q == [IdleReq EXCEPT !.op = "update_order", !.user = user,
                              !.oid = oid, !.patch = upd, !.snap = order]
     IN reqs' = Issue(
          IF order = None
          THEN Respond(q, 404, "Order not found")
          ELSE IF order[1].status \in {"delivered", "cancelled", "refunded"}
          THEN Respond(q, 400, "Order cannot be updated in current status")
          ELSE [q EXCEPT !.pc = "update_order_write"])
  /\ UNCHANGED <<orders, payment_orders, payment_logs, now, mode, rzp_seq,
                 retry_success>>

\* update_order, then Order(**updated_order): the row has no address and no
\* total_price, which the Order schema requires, so the response fails to build
OrderUpdateWrite(q) ==
  /\ q.pc = "update_order_write"
  /\ orders' = update_order_fields(q.oid, q.patch)
  /\ reqs' = Move(q,
       Respond([q EXCEPT !.wrote = @ \cup {"order_fields"}], 500,
               "Order update failed"))
  /\ UNCHANGED <<payment_orders, payment_logs, now, mode, rzp_seq,
                 retry_success>>

(***************************************************************************)
(* POST /orders/{order_id}/cancel: api/v1/orders.py cancel_order.          *)
(***************************************************************************)
\* update_order(order_id, cancellation_data); refund_status is set from the
\* payment_status read by get_order
update_order_cancel(order_id, paid) ==
  [i \in DOMAIN orders |->
     IF i = order_id
     THEN [orders[i] EXCEPT !.status = "cancelled",
                            !.refund_status = IF paid THEN "pending" ELSE @]
     ELSE orders[i]]

CancelStart(user, oid) ==
  /\ CanStart
  /\ LET order == get_order(oid, user)
         q == [IdleReq EXCEPT !.op = "cancel", !.user = user, !.oid = oid,
                              !.snap = order]
     IN reqs' = Issue(
          IF order = None
          THEN Respond(q, 404, "Order not found")
          ELSE IF order[1].status \in {"delivered", "cancelled", "shipped"}
          THEN Respond(q, 400, "Order cannot be cancelled in current status")
          ELSE [q EXCEPT !.pc = "cancel_write"])
  /\ UNCHANGED <<orders, payment_orders, payment_logs, now, mode, rzp_seq,
                 retry_success>>

CancelWrite(q) ==
  /\ q.pc = "cancel_write"
  /\ orders' = update_order_cancel(q.oid, q.snap[1].payment_status = "paid")
  /\ reqs' = Move(q,
       Respond([q EXCEPT !.wrote = @ \cup {"order_cancel"}], 200,
               "Order cancelled successfully"))
  /\ UNCHANGED <<payment_orders, payment_logs, now, mode, rzp_seq,
                 retry_success>>

(***************************************************************************)
(* POST /cod/process: api/v1/payments.py process_cod_payment.  An          *)
(* HTTPException leaves as it is; building PaymentResponse with the status *)
(* "cod_pending", which is no PaymentStatus, leaves through "except         *)
(* Exception" as a 500, after the writes.                                  *)
(***************************************************************************)
\* get_order, the 404, and validate_cod_order on the row: the risk score of
\* _calculate_user_risk_score and the orders of _get_recent_orders, which
\* returns []
ProcessCodPayment(user, oid) ==
  /\ CanStart
  /\ LET order == get_order(oid, user)
         q == [IdleReq EXCEPT !.op = "cod_process", !.user = user,
                              !.oid = oid, !.snap = order]
         cod_validation ==
           validate_cod_order(<<order[1].total_amount>>,
                              order[1].delivery_address,
                              calculate_user_risk_score(FALSE), 0)
         processed == {i \in DOMAIN payment_logs :
                         payment_logs[i].event_type = "none"}
         processing == {r \in Requests :
                          r.pc \in {"cod_update_order", "cod_log"}}
     IN IF order = None
        THEN reqs' = Issue(
               Respond(q, 404, "Order not found or unauthorized access."))
        ELSE IF ~cod_validation.eligible
        THEN reqs' = Issue(Respond(q, 400, cod_validation.reason))
        ELSE /\ Cardinality(processed)
                  + BagCardinality([r \in processing |-> reqs[r]])
                  < MaxCodPayments
             /\ reqs' = Issue([q EXCEPT !.pc = "cod_update_order"])
  /\ UNCHANGED <<orders, payment_orders, payment_logs, now, mode, rzp_seq,
                 retry_success>>

\* update_order_payment_status(order_id, "cod_pending", None)
ProcessCodUpdateOrder(q) ==
  /\ q.pc = "cod_update_order"
  /\ orders' = update_order_payment_status(q.oid, "cod_pending", "none")
  /\ reqs' = Move(q, [q EXCEPT !.pc = "cod_log",
                               !.wrote = @ \cup {"order_payment_status"}])
  /\ UNCHANGED <<payment_orders, payment_logs, now, mode, rzp_seq,
                 retry_success>>

\* create_payment_log({user_id, order_id, payment_method, status, ..}): a row
\* without razorpay_order_id and without event_type ("none"); then the
\* response PaymentResponse(status="cod_pending")
ProcessCodLog(q) ==
  /\ q.pc = "cod_log"
  /\ payment_logs' = Append(payment_logs, PaymentLog(q.user, q.oid, NoGid, "none"))
  /\ reqs' = Move(q,
       PaymentResponse([q EXCEPT !.wrote = @ \cup {"log_cod_pending"}],
                       "cod_pending",
                       "Cash on Delivery order confirmed. Pay when delivered.",
                       "COD payment processing failed. Please try again."))
  /\ UNCHANGED <<orders, payment_orders, now, mode, rzp_seq, retry_success>>

(***************************************************************************)
(* POST /webhook/razorpay: api/v1/payments.py razorpay_webhook and         *)
(* utils/payment_security.py process_webhook.                              *)
(***************************************************************************)
\* the bodies the gateway (or anyone) posts: two known events, an event with no
\* handler, and a body that is not JSON
WebhookEvents == {"payment.captured", "payment.failed", "order.paid", "malformed"}

\* the raw body of an event about a gateway order
WebhookPayload(event, gid) == <<event, gid>>

\* verify_webhook_signature: the digest of the raw body
verify_webhook_signature(payload, signature) == signature = hmac_sha256(payload)

\* _handle_payment_captured: pass
handle_payment_captured(po, gid) == po

\* _handle_payment_failed: pass
handle_payment_failed(po, gid) == po

\* process_webhook: payment_orders after the event; json.loads raises on a body
\* that is not JSON (raised is TRUE), the handlers are called for their events
process_webhook(event, gid) ==
  IF event = "malformed"
  THEN [raised |-> TRUE, payment_orders |-> payment_orders]
  ELSE [raised |-> FALSE,
        payment_orders |->
          IF event = "payment.captured"
          THEN handle_payment_captured(payment_orders, gid)
          ELSE IF event = "payment.failed"
          THEN handle_payment_failed(payment_orders, gid)
          ELSE payment_orders]

\* razorpay_webhook: the HTTPException(400) of an invalid signature is raised
\* inside the try block, whose only handler is "except Exception": it leaves
\* as the same 500 as a failure of process_webhook
Webhook(event, gid, sig) ==
  /\ CanStart
  /\ LET payload == WebhookPayload(event, gid)
         q == [IdleReq EXCEPT !.op = "webhook", !.event = event, !.gid = gid,
                              !.sig = sig]
         valid == verify_webhook_signature(payload, sig)
         out == process_webhook(event, gid)
     IN /\ reqs' = Issue(
             IF ~valid THEN Respond(q, 500, "Webhook processing failed")
             ELSE IF out.raised THEN Respond(q, 500, "Webhook processing failed")
             ELSE Respond(q, 200, "success"))
        /\ payment_orders' = IF valid THEN out.payment_orders ELSE payment_orders
  /\ UNCHANGED <<orders, payment_logs, now, mode, rzp_seq, retry_success>>

(***************************************************************************)
(* The requests clients send.                                              *)
(***************************************************************************)
\* the calls of POST /razorpay/verify: by the owner and by another user with
\* the signature of the gateway, and by the owner with a forged signature
VerifyRequests ==
  {[user |-> u, gid |-> g, pid |-> p, sig |-> ExpectedSignature(g, p)] :
     u \in Users, g \in KnownGids, p \in PaymentIds}
  \cup {[user |-> u, gid |-> g, pid |-> p, sig |-> ForgedSignature] :
          u \in Customers, g \in KnownGids \ {UnknownGid}, p \in PaymentIds}

\* the deliveries to POST /webhook/razorpay: every event about every gateway
\* order under the signature of the gateway, payment.captured about a gateway
\* order never issued, and payment.captured under a forged signature
WebhookRequests ==
  {[event |-> e, gid |-> g, sig |-> hmac_sha256(WebhookPayload(e, g))] :
     e \in WebhookEvents, g \in KnownGids \ {UnknownGid}}
  \cup {[event |-> "payment.captured", gid |-> UnknownGid,
         sig |-> hmac_sha256(WebhookPayload("payment.captured", UnknownGid))]}
  \cup {[event |-> "payment.captured", gid |-> g, sig |-> ForgedSignature] :
          g \in KnownGids \ {UnknownGid}}

\* VerifyStart and Webhook begin with CanStart; it also stands before the
\* sets of their requests, so that the signatures are computed only for a
\* request that can start
Next ==
  \/ Tick
  \/ CanStart /\ \E v \in VerifyRequests :
                    VerifyStart(v.user, v.gid, v.pid, v.sig)
  \/ \E q \in Requests : VerifyUpdatePaymentOrder(q)
  \/ \E q \in Requests : VerifyUpdateOrder(q)
  \/ \E user \in Customers, c \in CreateRequests :
       CreateInternalOrder(user, c.method, c.amount, c.cart)
  \/ \E q \in Requests : CreateOrderInsert(q)
  \/ \E q \in Requests : CreateOrderItems(q)
  \/ \E q \in Requests : CreateOrderSelect(q)
  \/ \E q \in Requests : CreateLogOrderCreated(q)
  \/ \E q \in Requests : CreateCodConfirm(q)
  \/ \E user \in Customers, amount \in DirectAmounts :
       CreateRazorpayOrder(user, amount)
  \/ \E q \in Requests : GatewayOrderInsert(q)
  \/ \E q \in Requests : GatewayOrderUpdateOrder(q)
  \/ \E q \in Requests : GatewayOrderLog(q)
  \/ \E user \in Users, oid \in KnownOids : RetryStart(user, oid)
  \/ \E q \in Requests : RetryUpdateOrder(q)
  \/ \E user \in Users, oid \in KnownOids : GetPaymentStatus(user, oid)
  \/ \E user \in Customers, oid \in KnownOids, upd \in OrderUpdates :
       OrderUpdateStart(user, oid, upd)
  \/ \E q \in Requests : OrderUpdateWrite(q)
  \/ \E user \in Customers, oid \in KnownOids : CancelStart(user, oid)
  \/ \E q \in Requests : CancelWrite(q)
  \/ \E user \in Users, oid \in KnownOids : ProcessCodPayment(user, oid)
  \/ \E q \in Requests : ProcessCodUpdateOrder(q)
  \/ \E q \in Requests : ProcessCodLog(q)
  \/ CanStart /\ \E w \in WebhookRequests : Webhook(w.event, w.gid, w.sig)

Spec == Init /\ [][Next]_vars

(***************************************************************************)
(* The service as long as it runs: orders are created, the gateway reports *)
(* by webhook, clients ask for the status and for payment on delivery, the *)
(* clock advances, and a request that has returned is forgotten, so that   *)
(* requests keep arriving.                                                 *)
(* A handler that has started runs to its end, the gateway delivers its    *)
(* report about the gateway order of every order whose payment is in       *)
(* process, and the clock reaches the timeout.                             *)
(***************************************************************************)
\* the response of a request has been sent
Forget ==
  /\ \E q \in Done : reqs' = reqs (-) SetToBag({q})
  /\ UNCHANGED <<orders, payment_orders, payment_logs, now, mode, rzp_seq,
                 retry_success>>

\* a handler of the creation of an order, or of the processing of a COD
\* payment, goes on
HandlerStep ==
  \E q \in Requests :
    \/ CreateOrderInsert(q)
    \/ CreateOrderItems(q)
    \/ CreateOrderSelect(q)
    \/ CreateLogOrderCreated(q)
    \/ CreateCodConfirm(q)
    \/ GatewayOrderInsert(q)
    \/ GatewayOrderUpdateOrder(q)
    \/ GatewayOrderLog(q)
    \/ ProcessCodUpdateOrder(q)
    \/ ProcessCodLog(q)

\* the gateway reports the outcome of the payment of an order whose payment
\* is in process
GatewayReports ==
  \E w \in WebhookRequests :
    /\ w.event \in {"payment.captured", "payment.failed"}
    /\ w.sig = hmac_sha256(WebhookPayload(w.event, w.gid))
    /\ \E o \in DOMAIN orders :
         /\ orders[o].razorpay_order_id = w.gid
         /\ orders[o].payment_status = "payment_processing"
    /\ Webhook(w.event, w.gid, w.sig)

NextLive ==
  \/ Tick
  \/ \E user \in Customers, c \in CreateRequests :
       CreateInternalOrder(user, c.method, c.amount, c.cart)
  \/ HandlerStep
  \/ \E user \in Customers, amount \in DirectAmounts :
       CreateRazorpayOrder(user, amount)
  \/ \E w \in WebhookRequests : Webhook(w.event, w.gid, w.sig)
  \/ \E user \in Users, oid \in KnownOids : GetPaymentStatus(user, oid)
  \/ \E user \in Users, oid \in KnownOids : ProcessCodPayment(user, oid)
  \/ Forget

SpecLive ==
  /\ Init
  /\ [][NextLive]_vars
  /\ WF_vars(Tick)
  /\ WF_vars(HandlerStep)
  /\ WF_vars(Forget)
  /\ SF_vars(GatewayReports)


(***************************************************************************)
(* The fraud engine: utils/fraud_detection.py analyze_transaction_risk.    *)
(* total is the sum of the scores of its analyses; failed tells that one   *)
(* of them raised.  Of the FraudRiskScore it returns, score and            *)
(* risk_level.                                                             *)
(***************************************************************************)
\* the analysis without the cap of line 112
analyze_transaction_risk_uncapped(failed, total) ==
  IF failed
  THEN [score |-> 90, risk_level |-> "critical"]
  ELSE [score |-> total,
        risk_level |->
          IF total < LowRiskThreshold THEN "low"
          ELSE IF total < MediumRiskThreshold THEN "medium"
          ELSE IF total < HighRiskThreshold THEN "high"
          ELSE "critical"]

analyze_transaction_risk(failed, total) ==
  IF failed
  THEN [score |-> 90, risk_level |-> "critical"]
  ELSE LET risk_score == Min(total, 100) IN
       [score |-> risk_score,
        risk_level |->
          IF risk_score < LowRiskThreshold THEN "low"
          ELSE IF risk_score < MediumRiskThreshold THEN "medium"
          ELSE IF risk_score < HighRiskThreshold THEN "high"
          ELSE "critical"]

(***************************************************************************)
(* The analyses of the fraud engine.  Each returns the points it adds and  *)
(* the reasons it gives.  What the helper methods of the engine return     *)
(* (the history of the user) comes as arguments; the helpers about IP      *)
(* addresses and high-risk pincodes are placeholders that find nothing.    *)
(* A reason is named by its text up to the first figure in it.             *)
(***************************************************************************)
\* one check of an analysis: points and reason when the condition holds
Risk(condition, points, reason) ==
  IF condition THEN [score |-> points, reasons |-> {reason}]
  ELSE [score |-> 0, reasons |-> {}]

RECURSIVE SumRisks(_)
\* the running total of an analysis over its checks, in their order
SumRisks(checks) ==
  IF checks = <<>> THEN [score |-> 0, reasons |-> {}]
  ELSE LET rest == SumRisks(Tail(checks)) IN
       [score |-> Head(checks).score + rest.score,
        reasons |-> Head(checks).reasons \cup rest.reasons]

\* SUSPICIOUS_AMOUNT_PATTERNS, in paise
SuspiciousAmountPatterns == {999900, 1999900, 4999900, 111111, 222222, 333333}

\* amount > avg_order_value * 5 and * 3: the product is rounded to a double
analyze_amount_risk(amount, avg_order_value) ==
  LET ExceedsMultiple(times) ==
        LET lowest == Min(Binade(amount), Binade(avg_order_value))
            avg == RoundDouble(avg_order_value, 0, lowest)
            product == RoundDouble(avg.paise * times, avg.err * times, lowest)
            given == RoundDouble(amount, 0, lowest)
        IN \/ given.paise > product.paise
           \/ given.paise = product.paise /\ given.err > product.err
  IN
  SumRisks(<<
    Risk(amount \in SuspiciousAmountPatterns, 25, "Suspicious amount pattern"),
    Risk(amount % 100000 = 0 /\ amount >= 1000000, 10, "Large round number amount"),
    IF avg_order_value > 0 /\ ExceedsMultiple(5)
    THEN Risk(TRUE, 20, "Amount significantly higher than user average")
    ELSE Risk(avg_order_value > 0 /\ ExceedsMultiple(3),
              10, "Amount moderately higher than user average"),
    IF amount > 10000000
    THEN Risk(TRUE, 15, "Very high transaction amount")
    ELSE Risk(amount > 5000000, 8, "High transaction amount") >>)

\* hourly and daily: the amounts of the transactions _get_recent_transactions
\* returns for 1 and for 24 hours, in their order, 0 for one without amount;
\* sum(...) + amount adds the amount of the transaction last
analyze_velocity_risk(hourly, daily, amount) ==
  SumRisks(<<
    IF Len(hourly) >= MaxTransactionsPerHour
    THEN Risk(TRUE, 30, "Too many transactions in last hour")
    ELSE Risk(Len(hourly) >= MaxTransactionsPerHour - 1, 15,
              "High transaction frequency in last hour"),
    Risk(Len(daily) >= MaxTransactionsPerDay, 25, "Too many transactions today"),
    Risk(SumExceeds(hourly \o <<amount>>, MaxAmountPerHourPaise), 25,
         "Hourly amount limit exceeded"),
    Risk(SumExceeds(daily \o <<amount>>, MaxAmountPerDayPaise), 20,
         "Daily amount limit exceeded") >>)

is_high_risk_ip == FALSE

is_vpn_or_proxy == FALSE

is_high_risk_pincode == FALSE

\* _get_ip_location returns None, so the distance is never computed
analyze_geographic_risk(pincode) ==
  SumRisks(<<
    Risk(is_high_risk_ip, 30, "High-risk IP address detected"),
    Risk(is_vpn_or_proxy, 20, "VPN or proxy usage detected"),
    Risk(~MatchesSixDigits(pincode), 15, "Invalid Indian pincode format"),
    Risk(is_high_risk_pincode, 10, "Delivery to high-risk area") >>)

\* user holds what the queries about user_id return; cod_return_rate is in
\* percent
analyze_user_behavior(user, payment_method) ==
  LET account_age == user.account_age
      total_orders == user.total_orders
      failed_payments == user.failed_payments
      cod_return_rate == user.cod_return_rate
  IN
  SumRisks(<<
    IF account_age < 1
    THEN Risk(TRUE, 25, "Very new account (less than 1 day)")
    ELSE IF account_age < 7
    THEN Risk(TRUE, 15, "New account (less than 1 week)")
    ELSE Risk(account_age < 30, 5, "Relatively new account"),
    IF total_orders = 0
    THEN Risk(TRUE, 20, "First-time customer")
    ELSE Risk(total_orders < 3, 10, "Limited order history"),
    IF failed_payments > 3
    THEN Risk(TRUE, 20, "Multiple recent failed payments")
    ELSE Risk(failed_payments > 1, 10, "Recent failed payment attempts"),
    IF payment_method = "cod" /\ cod_return_rate > 50
    THEN Risk(TRUE, 25, "High COD return rate")
    ELSE Risk(payment_method = "cod" /\ cod_return_rate > 30, 15,
              "Elevated COD return rate") >>)

\* a user agent is its text, and what the analysis reads in it: its length,
\* whether its lower case holds one of bot, crawler, spider, scraper,
\* automated, and whether it holds one of mobile, android, iphone
analyze_device_risk(user_agent) ==
  SumRisks(<<
    Risk(user_agent.length < 10, 15, "Missing or suspicious user agent"),
    Risk(user_agent.automated, 25, "Automated tool detected"),
    Risk(~user_agent.mobile, 5, "Desktop browser usage (mobile app expected)") >>)

\* order_items: a sequence of [quantity, price (paise)]; one reason and 8
\* points for each item in a large quantity
RECURSIVE TotalQuantity(_)
TotalQuantity(order_items) ==
  IF order_items = <<>> THEN 0
  ELSE Head(order_items).quantity + TotalQuantity(Tail(order_items))

analyze_order_patterns(order_items) ==
  SumRisks(<<
    Risk(TotalQuantity(order_items) > 50, 15, "Unusually large total quantity"),
    Risk(Cardinality({i \in DOMAIN order_items : order_items[i].price > 500000}) > 3,
         10, "Multiple high-value items"),
    [score |-> 8 * Cardinality({i \in DOMAIN order_items :
                                  order_items[i].quantity > 10}),
     reasons |-> IF \E i \in DOMAIN order_items : order_items[i].quantity > 10
                 THEN {"Large quantity of single item"} ELSE {}] >>)

\* current_hour: the hour of the clock; since_last: None when
\* _get_last_transaction_time finds no transaction, else <<the seconds since
\* the last transaction>>, which are negative when its time is ahead of the
\* clock
analyze_time_patterns(current_hour, since_last) ==
  SumRisks(<<
    Risk(current_hour < 6 \/ current_hour > 23, 10,
         "Transaction during unusual hours"),
    IF since_last = None THEN Risk(FALSE, 0, "")
    ELSE IF since_last[1] < 60
    THEN Risk(TRUE, 20, "Very rapid successive transaction")
    ELSE Risk(since_last[1] < 300, 10, "Rapid successive transaction") >>)

\* the analyses of analyze_transaction_risk on one transaction and the
\* history of its user, added up: order patterns only for a non-empty order
RiskAnalyses(t) ==
  SumRisks(<<
    analyze_amount_risk(t.amount, t.avg_order_value),
    analyze_velocity_risk(t.hourly, t.daily, t.amount),
    analyze_geographic_risk(t.pincode),
    analyze_user_behavior(t, t.payment_method),
    analyze_device_risk(t.user_agent),
    IF t.order_items /= <<>> THEN analyze_order_patterns(t.order_items)
    ELSE Risk(FALSE, 0, ""),
    analyze_time_patterns(t.current_hour, t.since_last) >>)

\* analyze_transaction_risk when no analysis raises: score, risk_level, reasons
FraudRiskScore(t) ==
  LET total == RiskAnalyses(t)
      result == analyze_transaction_risk(FALSE, total.score)
  IN [score |-> result.score, risk_level |-> result.risk_level,
      reasons |-> total.reasons]

(***************************************************************************)
(* Calls of the functions of utils/: a second specification, in which one  *)
(* function is called once on arguments drawn from the sets below and the  *)
(* call is recorded, with its result, in reqs.  The store stays empty.     *)
(***************************************************************************)
InitCalls ==
  /\ orders = <<>>
  /\ payment_orders = <<>>
  /\ payment_logs = <<>>
  /\ now = 0
  /\ mode = "mock"
  /\ rzp_seq = 0
  /\ retry_success = [o \in 1..MaxOrders |-> 0]
  /\ reqs = EmptyBag

\* the call is made, and recorded as c
Called(c) ==
  /\ reqs = EmptyBag
  /\ reqs' = SetToBag({c})
  /\ UNCHANGED <<orders, payment_orders, payment_logs, now, mode, rzp_seq,
                 retry_success>>

\* six digits; five digits; six digits and a newline; seven digits; a letter
\* among the digits; six Devanagari digits; an Arabic-Indic digit among the
\* digits; a tab; none
Pincodes ==
  {GoodPincode, <<49, 50, 51, 52, 53>>, GoodPincode \o <<10>>,
   GoodPincode \o <<55>>, <<52, 48, 48, 48, 48, 65>>,
   <<2410, 2406, 2406, 2406, 2406, 2407>>, <<52, 48, 48, 48, 48, 1635>>,
   <<9>>, <<>>}

\* a delivery_address that is None: no field of it can be read
NullAddress ==
  [street |-> NotText, city |-> NotText, state |-> NotText, pincode |-> NotText]

\* the delivery addresses of the orders validated: a full address with each
\* pincode; one whose city is a space, two spaces, None; one whose street is
\* a tab; one whose pincode is a number; {} and None
Addresses ==
  {[TestAddress EXCEPT !.pincode = p] : p \in Pincodes \cup {NotText}}
  \cup {[TestAddress EXCEPT !.city = c] : c \in {<<32>>, <<32, 32>>, NotText}}
  \cup {[TestAddress EXCEPT !.street = <<9>>],
        [TestAddress EXCEPT !.street = <<>>, !.city = NotText],
        NoAddress, NullAddress}

\* total_amount of the orders validated: around the COD limit
CodAmounts == {3000000, CodMaxAmountPaise, CodMaxAmountPaise + 1, 6000000}

CallValidateCod(total_amount, delivery_address, risk_score, recent_orders) ==
  Called([op |-> "validate_cod_order",
          total_amount |-> total_amount,
          delivery_address |-> delivery_address,
          risk_score |-> risk_score,
          recent_orders |-> recent_orders,
          result |-> validate_cod_order(total_amount, delivery_address,
                                        risk_score, recent_orders)])

\* the sums of the scores of the analyses: around each threshold, and above
\* the cap
RiskTotals ==
  {0, LowRiskThreshold - 1, LowRiskThreshold, MediumRiskThreshold - 1,
   MediumRiskThreshold, HighRiskThreshold - 1, HighRiskThreshold, 100, 120}

\* the risk of one transaction is computed, by the fraud engine and by
\* _calculate_user_risk_score, and validate_cod_order decides with that score
\* on an order that passes its other checks.  failed is a failure of the
\* computation in the fraud engine; _calculate_user_risk_score is a separate
\* function that the engine's failure does not reach, and nothing in its try
\* block raises.
CallRiskScore(failed, total) ==
  Called([op |-> "risk_score",
          failed |-> failed,
          total |-> total,
          engine |-> analyze_transaction_risk(failed, total),
          user_risk_score |-> calculate_user_risk_score(FALSE),
          cod |-> validate_cod_order(
                    <<3000000>>,
                    TestAddress,
                    calculate_user_risk_score(FALSE), 0)])

\* amounts around the limits of create_razorpay_order, 1.13 rupees, which
\* times 100 is a double below 113, and the 1000 rupees of
\* test_daily_transaction_limit_enforcement
GatewayAmounts ==
  {0, MinAmountPaise - 1, MinAmountPaise, 113, 100000, SeedAmount,
   DailyTransactionLimitPaise, DailyTransactionLimitPaise + 1, 15000000,
   MaxAmountPaise, MaxAmountPaise + 1, OversizeAmount}

\* what the user has paid so far today: nothing, or the daily limit
DayTotals == {0, DailyTransactionLimitPaise}

\* paid_today is what the user has paid today when the call is made; the
\* function asks _get_user_daily_transaction_total for it, which is the
\* placeholder of the module, or, when patched, a replacement that returns
\* paid_today (test_daily_transaction_limit_enforcement)
CallCreateRazorpayOrder(amount, currency, user_id, paid_today, patched) ==
  Called([op |-> "create_razorpay_order",
          amount |-> amount,
          currency |-> currency,
          user_id |-> user_id,
          paid_today |-> paid_today,
          patched |-> patched,
          result |-> create_razorpay_order(
                       amount, currency, user_id,
                       IF patched THEN paid_today
                       ELSE get_user_daily_transaction_total(user_id))])

\* the arguments of a signature verification: a gateway order id, the same
\* with one and with two characters that are sanitized away, the same with
\* "|" and more after it, a truthy and a falsy argument that are not a str,
\* and none; signatures computed for the ids and for the empty id, one with a
\* character that is sanitized away, a forged one, a falsy one, none
SignedOrderId == <<"order_mock", 0>>

SignatureOrderIds ==
  {SignedOrderId, Dirty(SignedOrderId), Dirty(Dirty(SignedOrderId)),
   Joined(SignedOrderId, "pay_B"), NotAString, Falsy, NoGid}

SignaturePaymentIds == PaymentIds \cup {"none"}

Signatures ==
  {ExpectedSignature(g, p) :
     g \in {SignedOrderId, Dirty(SignedOrderId), Joined(SignedOrderId, "pay_B"),
            <<>>},
     p \in PaymentIds}
  \cup {Dirty(ExpectedSignature(SignedOrderId, p)) : p \in PaymentIds}
  \cup {ForgedSignature, Falsy, <<>>}

\* pairs of a gateway order id and a payment id, among them two that differ
\* in the place of "|" only
SignaturePairs ==
  << <<SignedOrderId, "pay_A">>,
     <<Dirty(SignedOrderId), "pay_A">>,
     <<Dirty(Dirty(SignedOrderId)), "pay_A">>,
     <<Joined(SignedOrderId, "pay_B"), "pay_A">>,
     <<SignedOrderId, Joined("pay_B", "pay_A")>>,
     <<NoGid, "pay_A">>,
     <<SignedOrderId, "none">> >>

CallVerifySignature(order_id, payment_id, signature) ==
  Called([op |-> "verify_razorpay_signature",
          order_id |-> order_id,
          payment_id |-> payment_id,
          signature |-> signature,
          result |-> verify_razorpay_signature(order_id, payment_id, signature)])

\* one signature is verified for every pair of SignaturePairs; the pairs for
\* which it verifies are recorded, each by its place
CallVerifySignatureForPairs(signature) ==
  Called([op |-> "verify_razorpay_signature_for_pairs",
          signature |-> signature,
          verified |->
            {i \in DOMAIN SignaturePairs :
               verify_razorpay_signature(SignaturePairs[i][1],
                                         SignaturePairs[i][2], signature)}])

\* the raw bodies of webhooks and the signature headers sent with them
WebhookBodies == {WebhookPayload(e, SignedOrderId) : e \in WebhookEvents}

WebhookSignatures ==
  {hmac_sha256(b) : b \in WebhookBodies}
  \cup {Dirty(hmac_sha256(b)) : b \in WebhookBodies}
  \cup {ForgedSignature}

CallVerifyWebhookSignature(payload, signature) ==
  Called([op |-> "verify_webhook_signature",
          payload |-> payload,
          signature |-> signature,
          result |-> verify_webhook_signature(payload, signature)])

\* user agents: the one of the mobile app, a desktop browser, a crawler
MobileAgent ==
  [text |-> "Mozilla/5.0 (Mobile)", length |-> 20, automated |-> FALSE,
   mobile |-> TRUE]

DesktopAgent ==
  [text |-> "Mozilla/5.0 (Windows NT 10.0)", length |-> 29, automated |-> FALSE,
   mobile |-> FALSE]

BotAgent ==
  [text |-> "Googlebot/2.1", length |-> 13, automated |-> TRUE, mobile |-> FALSE]

\* what _get_recent_transactions returns for 1 and for 24 hours: nothing, four
\* and five transactions within the hour, five within the hour of twenty today
Histories ==
  {[hourly |-> <<>>, daily |-> <<>>],
   [hourly |-> [i \in 1..4 |-> 142500], daily |-> [i \in 1..4 |-> 142500]],
   [hourly |-> [i \in 1..5 |-> 130000], daily |-> [i \in 1..5 |-> 130000]],
   [hourly |-> [i \in 1..5 |-> 130000], daily |-> [i \in 1..20 |-> 130000]]}

\* an established customer and a small order: account of 30 days, 10 orders,
\* no failed payment, 1000 rupees, the mobile app, a valid pincode, at noon
EstablishedProfile ==
  [amount |-> 100000, avg_order_value |-> 100000,
   hourly |-> <<>>, daily |-> <<>>,
   pincode |-> GoodPincode, account_age |-> 30, total_orders |-> 10,
   failed_payments |-> 0, payment_method |-> "cod", cod_return_rate |-> 10,
   user_agent |-> MobileAgent, order_items |-> <<>>, current_hour |-> 12,
   since_last |-> None]

\* the transactions analysed: the established profile, and what differs from
\* it; and four in which a product or a sum of doubles is not the product or
\* the sum of the amounts: 1.13 * 5 is below 5.65 and 1.13 * 3 below 3.39,
\* and two histories whose sum with the amount, 50000 rupees, comes out
\* above 50000.0
Transactions ==
  {[EstablishedProfile EXCEPT
      !.amount = amount, !.hourly = h.hourly, !.daily = h.daily,
      !.account_age = account_age, !.total_orders = total_orders,
      !.failed_payments = failed_payments, !.user_agent = user_agent,
      !.order_items = order_items, !.current_hour = current_hour] :
     amount \in {100000, 999900, 10000000},
     h \in Histories,
     account_age \in {30, 3},
     total_orders \in {10, 1},
     failed_payments \in {0, 4},
     user_agent \in {MobileAgent, DesktopAgent},
     order_items \in {<<>>, <<[quantity |-> 60, price |-> 10000]>>},
     current_hour \in {12, 2}}
  \cup {[EstablishedProfile EXCEPT !.amount = amount, !.avg_order_value = 113] :
          amount \in {339, 565}}
  \cup {[EstablishedProfile EXCEPT
           !.amount = h[1], !.hourly = h[2], !.daily = h[2]] :
          h \in {<<659961, <<1016962, 1705722, 748243, 869112>> >>,
                 <<1553737, <<1523547, 1251100, 671616>> >>}}

CallAnalyzeTransactionRisk(t) ==
  Called([op |-> "analyze_transaction_risk",
          transaction |-> t,
          analyses |-> RiskAnalyses(t).score,
          result |-> FraudRiskScore(t)])

\* the conditions that can be added to a transaction, and the transaction with
\* the condition added; a larger amount tier is the first amount of the tier
Conditions ==
  {"very_new_account", "first_time_customer", "invalid_pincode",
   "bot_user_agent", "velocity_ceiling", "high_amount", "very_high_amount"}

HoldsIn(t, condition) ==
  CASE condition = "very_new_account" -> t.account_age < 1
    [] condition = "first_time_customer" -> t.total_orders = 0
    [] condition = "invalid_pincode" -> ~MatchesSixDigits(t.pincode)
    [] condition = "bot_user_agent" -> t.user_agent.automated
    [] condition = "velocity_ceiling" -> Len(t.hourly) >= MaxTransactionsPerHour
    [] condition = "high_amount" -> t.amount > 5000000
    [] condition = "very_high_amount" -> t.amount > 10000000

AddCondition(t, condition) ==
  CASE condition = "very_new_account" -> [t EXCEPT !.account_age = 0]
    [] condition = "first_time_customer" -> [t EXCEPT !.total_orders = 0]
    [] condition = "invalid_pincode" -> [t EXCEPT !.pincode = <<52, 48, 48>>]
    [] condition = "bot_user_agent" -> [t EXCEPT !.user_agent = BotAgent]
    [] condition = "velocity_ceiling" ->
         LET more == [i \in 1..(MaxTransactionsPerHour - Len(t.hourly)) |-> 0]
         IN [t EXCEPT !.hourly = @ \o more, !.daily = @ \o more]
    [] condition = "high_amount" -> [t EXCEPT !.amount = 5000100]
    [] condition = "very_high_amount" -> [t EXCEPT !.amount = 10000100]

\* a transaction is analysed without and with a condition it does not have
CallAnalyzeBoth(t, condition) ==
  /\ ~HoldsIn(t, condition)
  /\ Called([op |-> "analyze_both",
             transaction |-> t,
             condition |-> condition,
             without |-> FraudRiskScore(t),
             with |-> FraudRiskScore(AddCondition(t, condition))])

NextCalls ==
  \/ \E signature \in Signatures : CallVerifySignatureForPairs(signature)
  \/ \E t \in Transactions : CallAnalyzeTransactionRisk(t)
  \/ \E t \in Transactions, condition \in Conditions :
       CallAnalyzeBoth(t, condition)
  \/ \E order_id \in SignatureOrderIds, payment_id \in SignaturePaymentIds,
        signature \in Signatures :
       CallVerifySignature(order_id, payment_id, signature)
  \/ \E payload \in WebhookBodies, signature \in WebhookSignatures :
       CallVerifyWebhookSignature(payload, signature)
  \/ \E amount \in GatewayAmounts, currency \in {"INR", "USD"},
        user_id \in Users \cup {NoUser}, paid_today \in DayTotals,
        patched \in BOOLEAN :
       CallCreateRazorpayOrder(amount, currency, user_id, paid_today, patched)
  \/ \E failed \in BOOLEAN, total \in RiskTotals : CallRiskScore(failed, total)
  \* the risk score and the number of recent orders: around the thresholds
  \/ \E a \in {<<paise>> : paise \in CodAmounts} \cup {None},
        d \in Addresses,
        r \in {0, 50, CodRiskThreshold - 1, CodRiskThreshold,
               CodRiskThreshold + 1, 100},
        n \in {0, SuspiciousVelocityThreshold - 1,
               SuspiciousVelocityThreshold} :
       CallValidateCod(a, d, r, n)

SpecCalls == InitCalls /\ [][NextCalls]_vars

(***************************************************************************)
(* services/mock_payment_service.py MockPaymentGateway: a third            *)
(* specification.  The gateway object is the one record of reqs: its       *)
(* orders and its payments, each a sequence in the order of creation, an   *)
(* order's id (order_mock_ and a fresh uuid) being its index, and the      *)
(* calls of simulate_payment that wait in asyncio.sleep, in the order of   *)
(* their start.  Rates and draws of random.random() are in thousandths.    *)
(***************************************************************************)
MaxMockOrders == 2
MaxMockPayments == 3

\* __init__
MockPaymentGateway ==
  [op |-> "mock_gateway", orders |-> <<>>, payments |-> <<>>, calls |-> <<>>]

\* create_order, amount being the double nearest to paise / 100
mock_create_order(gateway, amount) ==
  [gateway EXCEPT
     !.orders = Append(@, [amount |-> ToPaisa(amount), amount_paid |-> 0,
                           amount_due |-> ToPaisa(amount),
                           status |-> "created"])]

\* _get_success_rate, of an amount in paise.  thousandths stands for the
\* double nearest to that decimal; above says that the rate is the next
\* double above it, which is what the product of the base rate is for
\* 0.9 * 0.8, 0.92 * 0.8 and 0.92 * 0.9.
get_success_rate(amount, payment_method) ==
  LET base_rate == CASE payment_method = "upi" -> 950
                     [] payment_method = "card" -> 900
                     [] payment_method = "netbanking" -> 850
                     [] payment_method = "wallet" -> 920
                     [] OTHER -> 900
  IN IF amount > 1000000
     THEN [thousandths |-> (base_rate * 8) \div 10,
           above |-> base_rate \in {900, 920}]
     ELSE IF amount > 500000
     THEN [thousandths |-> (base_rate * 9) \div 10, above |-> base_rate = 920]
     ELSE [thousandths |-> base_rate, above |-> FALSE]

\* simulate_payment up to its await: the order is looked up and the call waits
simulate_payment_start(gateway, order_id, payment_method) ==
  [gateway EXCEPT
     !.calls = Append(@, [order_id |-> order_id, method |-> payment_method])]

\* simulate_payment after its await, for the call at index call of those
\* waiting, random.random() giving draw
simulate_payment(gateway, call, draw) ==
  LET order_id == gateway.calls[call].order_id
      payment_method == gateway.calls[call].method
      order == gateway.orders[order_id]
      success_rate == get_success_rate(order.amount, payment_method)
      captured == \/ draw < success_rate.thousandths
                  \/ draw = success_rate.thousandths /\ success_rate.above
      payment == [order_id |-> order_id, amount |-> order.amount,
                  method |-> payment_method,
                  status |-> IF captured THEN "captured" ELSE "failed"]
  IN [gateway EXCEPT
        !.orders[order_id] =
          IF captured
          THEN [@ EXCEPT !.status = "paid", !.amount_paid = order.amount,
                         !.amount_due = 0]
          ELSE @,
        !.payments = Append(@, payment),
        !.calls = SubSeq(@, 1, call - 1) \o SubSeq(@, call + 1, Len(@))]

InitMock ==
  /\ orders = <<>>
  /\ payment_orders = <<>>
  /\ payment_logs = <<>>
  /\ now = 0
  /\ mode = "mock"
  /\ rzp_seq = 0
  /\ retry_success = [o \in 1..MaxOrders |-> 0]
  /\ reqs = SetToBag({MockPaymentGateway})

\* the gateway becomes gateway2
MockGatewayBecomes(gateway, gateway2) ==
  /\ reqs' = SetToBag({gateway2})
  /\ UNCHANGED <<orders, payment_orders, payment_logs, now, mode, rzp_seq,
                 retry_success>>

\* amounts of mock orders, in paise: 1.13, 100, 7500 and 15000 rupees
MockAmounts == {113, 10000, 750000, 1500000}

MockCreateOrder(amount) ==
  \E gateway \in Requests :
    /\ Len(gateway.orders) < MaxMockOrders
    /\ MockGatewayBecomes(gateway, mock_create_order(gateway, amount))

\* a call for an order that the gateway does not hold raises ValueError
MockSimulatePayment(order_id, payment_method) ==
  \E gateway \in Requests :
    /\ order_id \in DOMAIN gateway.orders
    /\ Len(gateway.payments) + Len(gateway.calls) < MaxMockPayments
    /\ MockGatewayBecomes(gateway,
         simulate_payment_start(gateway, order_id, payment_method))

\* the sleep of a waiting call ends: the draw, the order, the payment
MockPaymentProcessed(call, draw) ==
  \E gateway \in Requests :
    /\ call \in DOMAIN gateway.calls
    /\ MockGatewayBecomes(gateway, simulate_payment(gateway, call, draw))

NextMock ==
  \/ \E amount \in MockAmounts : MockCreateOrder(amount)
  \/ \E order_id \in 1..MaxMockOrders, payment_method \in {"upi", "card"} :
       MockSimulatePayment(order_id, payment_method)
  \/ \E call \in 1..MaxMockPayments, draw \in {0, 720, 800, 999} :
       MockPaymentProcessed(call, draw)

SpecMock == InitMock /\ [][NextMock]_vars

(***************************************************************************)
(* Properties.                                                             *)
(***************************************************************************)

\* C1: of the verification calls for one gateway order, however they
\* interleave, exactly one performs the transition to paid (the write of the
\* gateway order); every other call performs no such write, and no call that
\* found the gateway order returns an error.
C1_ExactlyOneTransition ==
  \A q \in Requests :
    (q.op = "verify" /\ q.snap /= None) =>
      /\ "payment_order_paid" \in q.wrote =>
           /\ CopiesIn(q, reqs) = 1
           /\ \A q2 \in Requests \ {q} :
                ~(/\ q2.op = "verify"
                  /\ q2.gid = q.gid
                  /\ "payment_order_paid" \in q2.wrote)
      /\ q.pc = "done" => q.code = 200

\* C2: a verification call that finds the gateway order already paid (the
\* second of two calls in sequence) writes nothing and returns the success
\* response: a duplicate is not an error.
C2_DuplicateIsSuccess ==
  \A q \in Done :
    (q.op = "verify" /\ q.snap /= None /\ q.snap[1].status = "paid") =>
      /\ q.wrote = {}
      /\ q.code = 200

\* C3: the step that completes a valid verification of a gateway order read in
\* status created returns a success response and leaves the gateway order paid,
\* the order's payment_status completed, the order's status processing if it
\* was pending_payment and unchanged otherwise, and an audit event of the
\* gateway order in the log.
C3_VerifyApplies ==
  [][\A q \in Requests :
       VerifyUpdateOrder(q) =>
         LET o == q.snap[1].internal_order_id IN
         /\ \A i \in DOMAIN payment_orders' :
              payment_orders'[i].razorpay_order_id = q.gid =>
                payment_orders'[i].status = "paid"
         /\ orders'[o].payment_status = "completed"
         /\ orders'[o].status =
              IF orders[o].status = "pending_payment"
              THEN "processing" ELSE orders[o].status
         /\ \E i \in DOMAIN payment_logs' :
              /\ payment_logs'[i].razorpay_order_id = q.gid
              /\ payment_logs'[i].event_type
                   \notin {"order_created", "payment_initiated"}
         /\ \E q2 \in BagToSet(reqs') :
              /\ q2.pc = "done" /\ q2.code = 200
              /\ q2.op = "verify" /\ q2.gid = q.gid
              /\ "order_payment_status" \in q2.wrote
    ]_vars

\* C4: every order's payment_status is a PaymentStatus, and a step changes it
\* only along pending -> payment_processing, payment_processing -> completed,
\* payment_failed or payment_timeout, payment_failed or payment_timeout ->
\* payment_processing, and completed -> refunded.
C4_PaymentStatusMachine ==
  [][\A o \in DOMAIN orders' :
       /\ orders'[o].payment_status \in PaymentStatus
       /\ o \in DOMAIN orders =>
            \/ orders'[o].payment_status = orders[o].payment_status
            \/ <<orders[o].payment_status, orders'[o].payment_status>> \in
                 {<<"pending", "payment_processing">>,
                  <<"payment_processing", "completed">>,
                  <<"payment_processing", "payment_failed">>,
                  <<"payment_processing", "payment_timeout">>,
                  <<"payment_failed", "payment_processing">>,
                  <<"payment_timeout", "payment_processing">>,
                  <<"completed", "refunded">>}
    ]_vars

\* C5: a webhook whose signature is valid is answered 200 {status: success},
\* whatever its body; a webhook whose signature is invalid is rejected as a
\* signature failure (400, Invalid webhook signature).
C5_WebhookAnswers ==
  \A q \in Done :
    q.op = "webhook" =>
      IF q.sig = hmac_sha256(WebhookPayload(q.event, q.gid))
      THEN q.code = 200 /\ q.detail = "success"
      ELSE q.code = 400 /\ q.detail = "Invalid webhook signature"

\* C6: a signature-valid payment.captured webhook moves a gateway order in
\* status created to paid and its order to completed, a signature-valid
\* payment.failed webhook moves it to failed and its order to payment_failed,
\* and an event for a gateway order already paid changes nothing.
C6_WebhookTransitions ==
  [][\A w \in WebhookRequests :
       (/\ Webhook(w.event, w.gid, w.sig)
        /\ w.sig = hmac_sha256(WebhookPayload(w.event, w.gid))) =>
         \A i \in DOMAIN payment_orders :
           payment_orders[i].razorpay_order_id = w.gid =>
             LET o == payment_orders[i].internal_order_id IN
             IF payment_orders[i].status = "created"
                /\ w.event = "payment.captured"
             THEN /\ payment_orders'[i].status = "paid"
                  /\ orders'[o].payment_status = "completed"
             ELSE IF payment_orders[i].status = "created"
                     /\ w.event = "payment.failed"
             THEN /\ payment_orders'[i].status = "failed"
                  /\ orders'[o].payment_status = "payment_failed"
             ELSE /\ payment_orders'[i] = payment_orders[i]
                  /\ orders'[o] = orders[o]
    ]_vars

\* C7: an order's retry_count is the number of its retries that returned
\* success, so at most 3 retries of one order succeed, and at most 3 gateway
\* orders are created by retries of one order (4 with the one of its creation).
C7_NoLostRetry ==
  \A o \in DOMAIN orders :
    /\ orders[o].payment_retry_count = retry_success[o]
    /\ retry_success[o] <= MaxRetryAttempts
    /\ Cardinality({i \in DOMAIN payment_orders :
                      payment_orders[i].internal_order_id = o})
         <= MaxRetryAttempts + 1

\* C8: every order's retry_count is between 0 and 3.
C8_RetryCountBounded ==
  \A o \in DOMAIN orders :
    orders[o].payment_retry_count \in 0..MaxRetryAttempts

\* an order at retry_count 3 by retries that ran concurrently: more of its
\* retries returned success than its retry_count tells
C8_Witness ==
  \E o \in DOMAIN orders :
    /\ orders[o].payment_retry_count = MaxRetryAttempts
    /\ retry_success[o] > MaxRetryAttempts

\* C9: a retry of an order whose payment_status is not payment_failed or
\* payment_timeout fails as a state conflict, a retry of an order whose
\* retry_count is already 3 fails as exhausted, and neither writes anything;
\* every other retry of an order of the caller creates a gateway order with a
\* new timeout and sets the order to payment_processing.
C9_RetryOutcome ==
  \A q \in Done :
    (q.op = "retry" /\ q.snap /= None) =>
      IF q.snap[1].payment_status \notin {"payment_failed", "payment_timeout"}
      THEN /\ q.code = 400
           /\ q.detail = "Payment retry not allowed for current order status."
           /\ q.wrote = {}
      ELSE IF q.snap[1].payment_retry_count >= 3
      THEN /\ q.code = 400
           /\ q.detail = "Maximum retry attempts exceeded."
           /\ q.wrote = {}
      ELSE /\ q.code = 200
           /\ {"payment_order_insert", "order_gateway", "order_retry"}
                \subseteq q.wrote

\* C10: a COD order is confirmed by create_order_with_payment only if the COD
\* eligibility check finds it eligible, and a COD request that is not eligible
\* fails with the reason of the check.
C10_CodOnlyIfEligible ==
  \A q \in Done :
    (q.op = "create" /\ q.method = "cod" /\ "log_order_created" \in q.wrote) =>
      LET v == validate_cod_order(<<q.amount>>, orders[q.oid].delivery_address,
                                  calculate_user_risk_score(FALSE), 0) IN
      IF v.eligible
      THEN TRUE
      ELSE /\ q.code /= 200
           /\ "order_status" \notin q.wrote
           /\ q.detail = v.reason

\* C11: validate_cod_order finds an order eligible exactly when its amount is
\* at most 50,000, its address has street, city and state and a pincode of six
\* digits, the risk score is below 70, fewer than 5 orders were placed in the
\* last hour and the pincode is serviceable; otherwise the reason is that of
\* the first check that fails, in this order.  Stated of the orders whose
\* amount is a number and whose address fields are texts.
C11_CodEligibility ==
  \A c \in Requests :
    (/\ c.op = "validate_cod_order"
     /\ c.total_amount /= None
     /\ \A i \in 1..4 : RequiredFields(c.delivery_address)[i] /= NotText) =>
      LET a == c.delivery_address
          amountOk == c.total_amount[1] <= 5000000
          addressOk == /\ Strip(a.street) /= <<>>
                       /\ Strip(a.city) /= <<>>
                       /\ Strip(a.state) /= <<>>
                       /\ Len(a.pincode) = 6
                       /\ \A i \in 1..Len(a.pincode) : a.pincode[i] \in Digits
          riskOk == c.risk_score < 70
          velocityOk == c.recent_orders < 5
          serviceable == is_serviceable_pincode(a.pincode)
      IN /\ c.result.eligible =
              (amountOk /\ addressOk /\ riskOk /\ velocityOk /\ serviceable)
         /\ c.result.reason =
              IF ~amountOk
              THEN "COD amount exceeds 50,000 limit as per RBI guidelines"
              ELSE IF ~addressOk
              THEN "Invalid or incomplete delivery address"
              ELSE IF ~riskOk
              THEN "COD not available due to account verification requirements"
              ELSE IF ~velocityOk
              THEN "Too many orders placed recently. Please try again later."
              ELSE IF ~serviceable
              THEN "COD not available in your area"
              ELSE ""

\* C12: when the computation of a risk score fails, the score returned is in
\* the critical tier, and the COD order decided with it is not eligible.
C12_RiskFailsClosed ==
  \A c \in Requests :
    (c.op = "risk_score" /\ c.failed) =>
      /\ c.engine.risk_level = "critical"
      /\ c.engine.score >= HighRiskThreshold
      /\ c.user_risk_score >= HighRiskThreshold
      /\ ~c.cod.eligible

\* C13: the creation of a gateway order in INR is rejected when the amount is
\* below 1.00 or above 200,000 rupees, and accepted when it is between them,
\* for every user, the daily total being the one the module computes.
C13_AmountBounds ==
  \A c \in Requests :
    (c.op = "create_razorpay_order" /\ c.currency = "INR" /\ ~c.patched) =>
      (c.result.accepted <=> (c.amount >= 100 /\ c.amount <= 20000000))

\* C14: the verification of a payment signature returns true for the HMAC of
\* "order_id|payment_id" and false for every other signature, and false when
\* an argument is missing; the verification of a webhook signature returns
\* true exactly for the HMAC of the raw body.
C14_SignatureExact ==
  \A c \in Requests :
    /\ c.op = "verify_razorpay_signature" =>
         IF \/ c.order_id \in {NoGid, Falsy}
            \/ c.payment_id = "none"
            \/ c.signature \in {<<>>, Falsy}
         THEN ~c.result
         ELSE c.result <=> (c.signature = ExpectedSignature(c.order_id, c.payment_id))
    /\ c.op = "verify_webhook_signature" =>
         (c.result <=> (c.signature = hmac_sha256(c.payload)))

\* C15: a status query on an order of the caller, with or without a gateway
\* order id, succeeds and returns the stored payment status, gateway order
\* id, timeout instant and retry count, with can_retry true exactly when the
\* payment status is payment_failed or payment_timeout and the retry count
\* is below 3; it writes nothing.
C15_StatusOfOwnOrder ==
  \A q \in Done :
    (q.op = "status" /\ q.snap /= None) =>
      /\ q.code = 200
      /\ q.wrote = {}
      /\ q.body.payment_status = q.snap[1].payment_status
      /\ q.body.razorpay_order_id = q.snap[1].razorpay_order_id
      /\ q.body.timeout_at = q.snap[1].payment_timeout_at
      /\ q.body.retry_count = q.snap[1].payment_retry_count
      /\ q.body.can_retry <=>
           /\ q.snap[1].payment_status \in {"payment_failed", "payment_timeout"}
           /\ q.snap[1].payment_retry_count < 3

\* C16: a status query on an order of the caller whose payment is pending at
\* the gateway (gateway order created, payment_processing) reports
\* payment_timeout when the clock is past the timeout instant of the order,
\* and the stored status when it is not.
C16_LazyTimeout ==
  [][\A user \in Users, oid \in DOMAIN orders :
       ( /\ GetPaymentStatus(user, oid)
         /\ orders[oid].user_id = user
         /\ orders[oid].payment_status = "payment_processing"
         /\ \E i \in DOMAIN payment_orders :
              /\ payment_orders[i].razorpay_order_id = orders[oid].razorpay_order_id
              /\ payment_orders[i].status = "created" )
       => \E q \in BagToSet(reqs') :
            /\ CopiesIn(q, reqs') > CopiesIn(q, reqs)
            /\ q.op = "status"
            /\ q.code = 200
            /\ q.body.payment_status =
                 IF now > orders[oid].payment_timeout_at
                 THEN "payment_timeout"
                 ELSE orders[oid].payment_status]_vars

\* C17: a status query and a retry by a user who does not own the order, or
\* on an order that does not exist, are answered 404 with the same detail at
\* their first step; the answer is built from the request alone, and nothing
\* has been written.
C17_NonOwnerNotFound ==
  \A q \in Requests :
    ( /\ q.op \in {"status", "retry"}
      /\ q.oid \in DOMAIN orders => orders[q.oid].user_id /= q.user )
    => q = Respond([IdleReq EXCEPT !.op = q.op, !.user = q.user, !.oid = q.oid],
                   404, "Order not found or unauthorized access.")

\* a status query and a retry by u2 on an order of u1 whose payment failed and
\* may be retried have both been answered 404
C17_Witness ==
  \E o \in DOMAIN orders :
    /\ orders[o].user_id = "u1"
    /\ orders[o].payment_status = "payment_failed"
    /\ orders[o].payment_retry_count < MaxRetryAttempts
    /\ \A op \in {"status", "retry"} :
         \E q \in Done :
           q.op = op /\ q.user = "u2" /\ q.oid = o /\ q.code = 404

\* C18: create_order_with_payment with an amount within the limits, once it
\* has answered and while no other request names its order or its gateway
\* order: for upi, card
\* and wallet the order is stored in status pending_payment, exactly one
\* gateway order of it is stored, in status created with a timeout 15
\* minutes after its creation, and the answer is payment_required; for cod
\* the order is stored in status processing, without a gateway order, and
\* the answer is the confirmation.
C18_CreateByMethod ==
  \A q \in Done :
    ( /\ q.op = "create"
      /\ q.cart = "empty"
      /\ q.amount >= 100 /\ q.amount <= 20000000
      /\ \A p \in Requests : p /= q => (p.oid /= q.oid /\ p.gid /= q.newgid) )
    => LET gateway_orders ==
             {i \in DOMAIN payment_orders :
                payment_orders[i].internal_order_id = q.oid}
       IN IF q.method \in {"upi", "card", "wallet"}
          THEN /\ q.code = 200
               /\ q.detail = "payment_required"
               /\ orders[q.oid].status = "pending_payment"
               /\ Cardinality(gateway_orders) = 1
               /\ \A i \in gateway_orders :
                    /\ payment_orders[i].status = "created"
                    /\ \E t \in 0..now :
                         payment_orders[i].timeout_at = t + 15 * 60
          ELSE /\ q.code = 200
               /\ q.detail = "Order confirmed. Payment on delivery."
               /\ orders[q.oid].status = "processing"
               /\ gateway_orders = {}

\* C19: an order creation, a payment verification, a retry or a COD
\* processing that has written to orders or payment_orders has also appended
\* a row to payment_logs by the time it answers, and no step changes or
\* removes a row of payment_logs.
C19_AuditTrail ==
  [][/\ \A q \in BagToSet(reqs') :
          ( /\ CopiesIn(q, reqs') > CopiesIn(q, reqs)
            /\ q.pc = "done"
            /\ q.op \in {"create", "verify", "retry", "cod_process"}
            /\ q.wrote \ {"log_order_created", "log_payment_initiated",
                           "log_cod_pending"} /= {} )
          => q.wrote \cap {"log_order_created", "log_payment_initiated",
                           "log_cod_pending"} /= {}
     /\ Len(payment_logs') >= Len(payment_logs)
     /\ SubSeq(payment_logs', 1, Len(payment_logs)) = payment_logs]_vars

\* C20: a payment.captured webhook with a valid signature that names a
\* gateway order id never issued is answered 200, changes no order and no
\* gateway order, and appends one row to payment_logs.
C20_UnknownGatewayOrder ==
  [][Webhook("payment.captured", UnknownGid,
             hmac_sha256(WebhookPayload("payment.captured", UnknownGid)))
       => /\ \E q \in BagToSet(reqs') :
               /\ CopiesIn(q, reqs') > CopiesIn(q, reqs)
               /\ q.op = "webhook"
               /\ q.code = 200
          /\ UNCHANGED <<orders, payment_orders>>
          /\ Len(payment_logs') = Len(payment_logs) + 1
          /\ SubSeq(payment_logs', 1, Len(payment_logs)) = payment_logs]_vars

\* C21: a verification with a valid signature by the owner, a retry by the
\* owner and a cancellation by the owner, of an order that is delivered,
\* cancelled or refunded, are rejected at their first step with a
\* state-conflict error (400 or 409), and nothing is written.
C21_TerminalOrderRejects ==
  [][\A q \in BagToSet(reqs') :
       ( /\ CopiesIn(q, reqs') > CopiesIn(q, reqs)
         /\ q.op \in {"verify", "retry", "cancel"}
         /\ q.wrote = {}
         /\ q.snap /= None
         /\ LET oid == IF q.op = "verify" THEN q.snap[1].internal_order_id
                       ELSE q.oid
            IN /\ oid \in DOMAIN orders
               /\ orders[oid].status \in {"delivered", "cancelled", "refunded"} )
       => /\ q.pc = "done"
          /\ q.code \in {400, 409}
          /\ UNCHANGED <<orders, payment_orders, payment_logs>>]_vars

\* C22: the score of an analysis is an integer from 0 to 100, the sum of the
\* points of its analyses capped at 100, and the risk level follows from the
\* score alone: low below 30, medium below 60, high below 80, else critical;
\* an analysis that fails answers 90 and critical.
C22_ScoreAndTier ==
  \A c \in Requests :
    /\ c.op = "risk_score" =>
         /\ c.engine.score \in 0..100
         /\ c.engine.risk_level = "critical" <=> c.engine.score >= 80
    /\ c.op = "analyze_transaction_risk" =>
      /\ c.result.score \in 0..100
      /\ c.result.score = IF c.analyses < 100 THEN c.analyses ELSE 100
      /\ c.result.risk_level = "low" <=> c.result.score < 30
      /\ c.result.risk_level = "medium" <=> (c.result.score >= 30 /\ c.result.score < 60)
      /\ c.result.risk_level = "high" <=> (c.result.score >= 60 /\ c.result.score < 80)
      /\ c.result.risk_level = "critical" <=> c.result.score >= 80

\* an analysis whose points add up to more than 100 has been made
C22_Witness ==
  \E c \in Requests :
    /\ c.op = "analyze_transaction_risk"
    /\ c.analyses > 100
    /\ c.result.score = 100
    /\ c.result.risk_level = "critical"

\* C23: a condition added to the established profile raises the score, and a
\* condition added to any transaction does not lower it.
C23_Monotone ==
  \A c \in Requests :
    c.op = "analyze_both" =>
      /\ c.with.score >= c.without.score
      /\ c.transaction = EstablishedProfile => c.with.score > c.without.score

\* C24: five transactions within the hour, for the established profile,
\* give a score above 60, the risk level high or critical, and a reason that
\* mentions the transactions.
C24_VelocityCeiling ==
  \A c \in Requests :
    ( /\ c.op = "analyze_transaction_risk"
      /\ c.transaction =
           [EstablishedProfile EXCEPT
              !.hourly = [i \in 1..5 |-> 130000],
              !.daily = [i \in 1..5 |-> 130000]] )
    => /\ c.result.score > 60
       /\ c.result.risk_level \in {"high", "critical"}
       /\ "Too many transactions in last hour" \in c.result.reasons

\* C25: the creation of a gateway order for a user, with an amount that the
\* other checks accept, is rejected with "Daily transaction limit exceeded"
\* whenever what the user has paid today plus the amount exceeds the daily
\* limit, and then creates no gateway order; the daily total is the one the
\* module computes.
C25_DailyLimitRejects ==
  \A c \in Requests :
    ( /\ c.op = "create_razorpay_order"
      /\ ~c.patched
      /\ c.user_id /= NoUser
      /\ c.currency = "INR"
      /\ c.amount >= MinAmountPaise
      /\ c.amount <= MaxAmountPaise
      /\ c.paid_today + c.amount > DailyTransactionLimitPaise )
    => /\ ~c.result.accepted
       /\ c.result.error = "Daily transaction limit exceeded"
       /\ c.result.status /= "created"

\* C26: every gateway order stored has a gateway order id that no other
\* stored gateway order has.
C26_GatewayIdsDistinct ==
  \A i, j \in DOMAIN payment_orders :
    i /= j =>
      payment_orders[i].razorpay_order_id /= payment_orders[j].razorpay_order_id

\* C27: in every state, a gateway order is paid only if the payment_status of
\* its order is the one of a paid order.
C27_PaidTogether ==
  \A i \in DOMAIN payment_orders :
    payment_orders[i].status = "paid" =>
      orders[payment_orders[i].internal_order_id].payment_status
        \in {"paid", "completed"}

\* C28: a signature verifies for at most one pair of a gateway order id and a
\* payment id.
C28_OnePairPerSignature ==
  \A c \in Requests :
    c.op = "verify_razorpay_signature_for_pairs" => Cardinality(c.verified) <= 1

\* C29: an order whose payment is in process leaves that state: its
\* payment_status becomes completed, payment_failed or payment_timeout.
C29_ProcessingEnds ==
  \A o \in 1..MaxOrders :
    (IF o \in DOMAIN orders
     THEN orders[o].payment_status = "payment_processing" ELSE FALSE)
      ~> (IF o \in DOMAIN orders
          THEN orders[o].payment_status
                 \in {"completed", "payment_failed", "payment_timeout"}
          ELSE FALSE)

\* C30: every order of the mock gateway has at most one captured payment.
C30_OneCapturePerOrder ==
  \A gateway \in Requests :
    gateway.op = "mock_gateway" =>
      \A o \in DOMAIN gateway.orders :
        Cardinality({i \in DOMAIN gateway.payments :
                       /\ gateway.payments[i].order_id = o
                       /\ gateway.payments[i].status = "captured"}) <= 1

====
